---- MODULE Spec2Model ----
(***************************************************************************)
(* The embedding pipelines of SubstackGPT.                                  *)
(*                                                                         *)
(*   - the concurrency-limited RateLimiter and the batched pipeline        *)
(*     (processBatch / generateEmbeddings), first half of part_006;        *)
(*   - the serial RateLimiter and the per-chunk pipeline                    *)
(*     (processChunkWithRetry / generateEmbeddings), second half;           *)
(*   - the sequential retry loop of scripts/embed.ts;                       *)
(*   - createChunks and scrape of scripts/substack_scraper.ts, and the      *)
(*     handler of pages/api/scrape-substack.ts that streams its progress;   *)
(*   - scrapePosts of part_001, which saves the posts as markdown files.   *)
(*                                                                         *)
(* Time is in milliseconds.  A JavaScript macrotask (a timer callback, the  *)
(* settling of an HTTP call) together with the microtasks it schedules is   *)
(* one action: the code between two awaits runs without interleaving.       *)
(***************************************************************************)
EXTENDS Integers, Sequences, FiniteSets

VARIABLES
    now,          \* Date.now()
    rateLimiter,  \* fields of the RateLimiter instance
    sleepers,     \* activations of processNextRequest suspended in sleep()
    inflight,     \* request functions started and not yet settled
    dispatched,   \* history: one entry per request function started
    added,        \* number of add() calls made by the free caller
    variant,      \* which program runs: "limiter", "batch", "rerun", "serial",
                  \* "embed", "chunker", "scrape", "posts", "queue"
    substackData, \* the input of generateEmbeddings
    run,          \* position and counters of generateEmbeddings
    pb,           \* position and locals of the processBatch or processChunkWithRetry
                  \* call in progress
    table,        \* rows of substack_embeddings, in insertion order
    calls,        \* history: numbers of attempts started and of store calls issued
    hist,         \* history: failures the program has been handed so far, chunks
                  \* inserted on a retry, chunks given up
    faults,       \* number of failures injected so far
    em,           \* scripts/embed.ts: position and locals of the retry loop
    failedChunks, \* scripts/embed.ts: the failed-chunk ledger
    text,         \* createChunks: the content argument
    result,       \* createChunks: how the call ended and what it returned
    web,          \* /api/scrape-substack: the request, the site it names and
                  \* the environment of the server
    scraper,      \* position and locals of handler and SubstackScraper.scrape
    res,          \* the response: status, body, events written, ended
    substack,     \* scrapePosts: the site's host, sitemap and feed, and the
                  \* numPostsToScrape argument
    md            \* scrapePosts: position and locals, the pages fetched and
                  \* the files of mdSaveDir

vars == <<now, rateLimiter, sleepers, inflight, dispatched, added, variant,
          substackData, run, pb, table, calls, hist, faults, em, failedChunks,
          text, result, web, scraper, res, substack, md>>

limiterVars == <<rateLimiter, sleepers, inflight, dispatched>>
pipelineVars == <<run, pb, table, calls>>
embedVars == <<em, failedChunks>>
webVars == <<text, result, web, scraper, res, substack, md>>

\* ---------------------------------------------------------------- bounds
MaxAdds == 5        \* add() calls of the free caller
Step == 250         \* granularity of elapsing time while a call is pending
MaxElapse == 2      \* number of Steps time may elapse past StartTime
StartTime == 1000   \* Date.now() when the program starts
MaxExtraFaults == 0  \* failures injected in one run beyond one full round of attempts
MaxEssays == 2      \* essays of the input
MaxFailBatch == 2   \* the embedding service fails requests of batches up to this size
MaxRuns == 2        \* calls of generateEmbeddings made one after the other
MaxTextLen == 5     \* characters (or runs of characters) of a text
MaxUrls == 3        \* entries of the sitemap
MaxItems == 2       \* items of the feed

\* ------------------------------------------------------ program constants
requestInterval == 500
maxConcurrent == 3
maxRetries == 3
baseDelay == 1000
BATCH_SIZE == 10
SUPABASE_CHUNK_SIZE == 5
\* second half of part_006
serialRequestInterval == 3000
chunkMaxRetries == 5
chunkBaseDelay == 5000
\* scripts/embed.ts
embedMaxRetries == 8
embedBaseDelay == 100
maxWaitTime == 120000
RATE_LIMITED == 429
\* scripts/substack_scraper.ts
CHUNK_SIZE == 200
DEV_MODE_ARTICLE_LIMIT == 5
METHOD_NOT_ALLOWED == 405
BAD_REQUEST == 400

Max(a, b) == IF a >= b THEN a ELSE b
Min(a, b) == IF a <= b THEN a ELSE b

\* ------------------------------------------------ RateLimiter (3 slots)
\* The limiter together with the positions of its activations, handled as
\* one record so that a handler's nested calls compose.
Limiter ==
    [queue |-> rateLimiter.queue,
     activeRequests |-> rateLimiter.activeRequests,
     lastRequestTime |-> rateLimiter.lastRequestTime,
     sleepers |-> sleepers,
     inflight |-> inflight,
     dispatched |-> dispatched]

SetLimiter(w) ==
    /\ rateLimiter' = [queue |-> w.queue,
                       activeRequests |-> w.activeRequests,
                       lastRequestTime |-> w.lastRequestTime]
    /\ sleepers' = w.sleepers
    /\ inflight' = w.inflight
    /\ dispatched' = w.dispatched

\* Lines 41-48: shift the queue, count the request, stamp the time, call fn.
Dispatch(w, t, seen) ==
    IF Len(w.queue) = 0 THEN w
    ELSE [w EXCEPT
            !.queue = Tail(@),
            !.activeRequests = @ + 1,
            !.lastRequestTime = t,
            !.inflight = @ \cup {Head(w.queue)},
            !.dispatched = Append(@, [req |-> Head(w.queue), time |-> t, seen |-> seen])]

\* Lines 26-48, up to the first await of the activation.
ProcessNextRequest(w, t) ==
    IF Len(w.queue) = 0 \/ w.activeRequests >= maxConcurrent THEN w
    ELSE LET timeToWait == Max(0, requestInterval - (t - w.lastRequestTime))
         IN IF timeToWait > 0
            THEN [w EXCEPT !.sleepers =
                     Append(@, [wake |-> t + timeToWait, seen |-> w.lastRequestTime])]
            ELSE Dispatch(w, t, w.lastRequestTime)

\* Lines 19-24.
LimiterAdd(w, req, t) ==
    ProcessNextRequest([w EXCEPT !.queue = Append(@, req)], t)

\* LimiterSettle with a finally block that only counts the request down.
LimiterSettleNoNext(w, req, t) ==
    [w EXCEPT !.inflight = @ \ {req}, !.activeRequests = @ - 1]

\* Lines 49-60: the request function settled (either way).
LimiterSettle(w, req, t) ==
    LET w1 == [w EXCEPT !.inflight = @ \ {req}, !.activeRequests = @ - 1]
        w2 == ProcessNextRequest(w1, t)
    IN IF w2.activeRequests < maxConcurrent THEN ProcessNextRequest(w2, t) ELSE w2

\* Lines 38-48: an activation's sleep is over.
LimiterWake(w, i, t) ==
    Dispatch([w EXCEPT !.sleepers = SubSeq(@, 1, i - 1) \o SubSeq(@, i + 1, Len(@))],
             t, w.sleepers[i].seen)

\* ---------------------------------------------- RateLimiter (serial)
\* The serial limiter's fields are queue, processing and lastRequestTime.
SerialLimiter ==
    [queue |-> rateLimiter.queue,
     processing |-> rateLimiter.processing,
     lastRequestTime |-> rateLimiter.lastRequestTime,
     sleepers |-> sleepers,
     inflight |-> inflight,
     dispatched |-> dispatched]

SetSerialLimiter(w) ==
    /\ rateLimiter' = [queue |-> w.queue,
                       processing |-> w.processing,
                       lastRequestTime |-> w.lastRequestTime]
    /\ sleepers' = w.sleepers
    /\ inflight' = w.inflight
    /\ dispatched' = w.dispatched

\* Lines 255-261: shift the queue, stamp the time, call fn; with nothing to
\* shift the chain goes straight to the next processQueue, which stops.
SerialDispatch(w, t, seen) ==
    IF Len(w.queue) = 0 THEN [w EXCEPT !.processing = FALSE]
    ELSE [w EXCEPT
            !.queue = Tail(@),
            !.lastRequestTime = t,
            !.inflight = @ \cup {Head(w.queue)},
            !.dispatched = Append(@, [req |-> Head(w.queue), time |-> t, seen |-> seen])]

\* Lines 241-259, up to the first await of the activation.
processQueue(w, t) ==
    IF Len(w.queue) = 0 THEN [w EXCEPT !.processing = FALSE]
    ELSE LET timeSinceLastRequest == t - w.lastRequestTime
             w1 == [w EXCEPT !.processing = TRUE]
         IN IF timeSinceLastRequest < serialRequestInterval
            THEN [w1 EXCEPT !.sleepers =
                     Append(@, [wake |-> t + (serialRequestInterval - timeSinceLastRequest),
                                seen |-> w.lastRequestTime])]
            ELSE SerialDispatch(w1, t, w.lastRequestTime)

\* SerialAdd starting a chain whatever the processing flag says.
SerialAddAlwaysStarting(w, req, t) ==
    processQueue([w EXCEPT !.queue = Append(@, req)], t)

\* Lines 224-239.
SerialAdd(w, req, t) ==
    LET w1 == [w EXCEPT !.queue = Append(@, req)]
    IN IF ~w.processing THEN processQueue(w1, t) ELSE w1

\* Lines 226-233 and 258-261: fn settled, the chain calls processQueue again.
SerialSettle(w, req, t) ==
    processQueue([w EXCEPT !.inflight = @ \ {req}], t)

\* Lines 252-259: the chain's sleep is over.
SerialWake(w, i, t) ==
    SerialDispatch([w EXCEPT !.sleepers = SubSeq(@, 1, i - 1) \o SubSeq(@, i + 1, Len(@))],
                   t, w.sleepers[i].seen)

\* ---------------------------------------------------------------- timers
Due(ss) == {ss[i].wake : i \in DOMAIN ss}
SetMin(S) == CHOOSE x \in S : \A y \in S : x <= y

\* Timers fire in order of due time, and in order of creation among equals.
FirstDue(ss, t) ==
    CHOOSE i \in DOMAIN ss :
        /\ ss[i].wake <= t
        /\ \A k \in DOMAIN ss : ss[k].wake <= t => i <= k

\* ------------------------------------------------------------ the input
Author == "A"
OtherAuthor == "B"
Content(i, j) == <<i, j>>
Chunk(i, j) == [essay_title |-> i, index |-> j, content |-> Content(i, j)]
Essay(i, n) == [title |-> i, chunks |-> [k \in 1..n |-> Chunk(i, k - 1)]]

\* The inputs: one essay of no chunk, one chunk, two chunks, or one chunk more
\* than a single insert call carries; or up to MaxEssays essays of at most one
\* chunk each.
ChunkCounts == {0, 1, 2, SUPABASE_CHUNK_SIZE + 1}

RECURSIVE SeqsUpTo(_, _)
SeqsUpTo(S, n) ==
    IF n = 0 THEN {<<>>}
    ELSE LET shorter == SeqsUpTo(S, n - 1)
         IN shorter \cup {Append(s, x) : s \in shorter, x \in S}

InputShapes == {<<n>> : n \in ChunkCounts} \cup SeqsUpTo(0..1, MaxEssays)

Input(ns) == [author |-> Author, essays |-> [i \in 1..Len(ns) |-> Essay(i, ns[i])]]

Inputs == {Input(ns) : ns \in InputShapes}

\* The pipelines that work chunk by chunk get the inputs without the long essay.
ShortInputs ==
    {Input(ns) : ns \in {s \in InputShapes : \A k \in DOMAIN s : s[k] < SUPABASE_CHUNK_SIZE}}

\* The rows the table holds before the run: the author's rows of an earlier
\* run and another author's rows.
Embedding(content) == [vec |-> content]
Row(author, chunk, embedding) ==
    [author |-> author, essay_title |-> chunk.essay_title,
     content |-> chunk.content, embedding |-> embedding]
OldRow(author) == Row(author, Chunk(0, 0), Embedding(Content(0, 0)))
InitialTable == <<OldRow(Author), OldRow(OtherAuthor)>>

\* --------------------------------------------- generateEmbeddings, batched
\* The state a handler of the batched pipeline works on.
World ==
    [lim |-> Limiter, pb |-> pb, run |-> run, table |-> table, calls |-> calls]

SetWorld(S) ==
    /\ SetLimiter(S.lim)
    /\ pb' = S.pb
    /\ run' = S.run
    /\ table' = S.table
    /\ calls' = S.calls

NoHistory ==
    [quota |-> FALSE, insertError |-> FALSE, deleteError |-> FALSE,
     outOfOrder |-> FALSE, recovered |-> {}, givenUp |-> {}]

\* rateWait is history: the wait after the last 429 response of the chunk.
NoLoop ==
    [phase |-> "none", retries |-> 0, lastError |-> <<>>, embedding |-> <<>>, waitTime |-> 0,
     rateWait |-> 0]

NoBatch ==
    [phase |-> "none", att |-> 0, retryCount |-> 0, chunks |-> <<>>,
     responses |-> <<>>, insertData |-> <<>>, cursor |-> 0, wake |-> 0]

\* essay.chunks.slice(j, j + BATCH_SIZE)
Batch(i, j) ==
    LET cs == substackData.essays[i].chunks
    IN SubSeq(cs, j + 1, Min(j + BATCH_SIZE, Len(cs)))

RECURSIVE AddAll(_, _, _, _)
AddAll(w, reqs, k, t) ==
    IF k > Len(reqs) THEN w ELSE AddAll(LimiterAdd(w, reqs[k], t), reqs, k + 1, t)

\* Lines 77-97: every chunk of the batch is handed to the limiter, in order.
processBatch(S, chunks, retryCount, t) ==
    LET att == S.calls.attempts + 1
        reqs == [k \in 1..Len(chunks) |->
                    [att |-> att, idx |-> k, content |-> chunks[k].content]]
    IN [S EXCEPT
          !.lim = AddAll(@, reqs, 1, t),
          !.pb = [phase |-> "embedding", att |-> att, retryCount |-> retryCount,
                  chunks |-> chunks, responses |-> [k \in 1..Len(chunks) |-> <<>>],
                  insertData |-> <<>>, cursor |-> 0, wake |-> 0],
          !.calls.attempts = att]

\* The first essay from i on that has a batch (lines 179, 184).
RECURSIVE FirstBatchFrom(_)
FirstBatchFrom(i) ==
    IF i > Len(substackData.essays) THEN [i |-> i, j |-> 0]
    ELSE IF Len(substackData.essays[i].chunks) > 0 THEN [i |-> i, j |-> 0]
    ELSE FirstBatchFrom(i + 1)

\* j += BATCH_SIZE, then i++ (lines 179, 184).
AfterBatch(i, j) ==
    IF j + BATCH_SIZE < Len(substackData.essays[i].chunks)
    THEN [i |-> i, j |-> j + BATCH_SIZE]
    ELSE FirstBatchFrom(i + 1)

\* Lines 179-194: the loop reaches position pos.
EnterBatch(S, pos, t) ==
    IF pos.i > Len(substackData.essays)
    THEN [S EXCEPT !.run.pc = "done", !.run.i = pos.i, !.run.j = pos.j, !.pb = NoBatch]
    ELSE processBatch([S EXCEPT !.run.pc = "batch", !.run.i = pos.i, !.run.j = pos.j],
                      Batch(pos.i, pos.j), 0, t)

\* BatchReturned with the author's rows cleared again before every batch.
BatchReturnedClearing(S, success, t) ==
    LET S1 == IF success
              THEN [S EXCEPT !.run.processedChunks = @ + Len(S.pb.chunks)]
              ELSE S
        S2 == [S1 EXCEPT
                 !.calls.deletes = @ + 1,
                 !.table = SelectSeq(@, LAMBDA r : r.author # substackData.author)]
    IN EnterBatch(S2, AfterBatch(S.run.i, S.run.j), t)

\* Lines 196-204: processBatch returned.
BatchReturned(S, success, t) ==
    LET S1 == IF success
              THEN [S EXCEPT !.run.processedChunks = @ + Len(S.pb.chunks)]
              ELSE S
    IN EnterBatch(S1, AfterBatch(S.run.i, S.run.j), t)

\* The wait doubling with every retry.
WaitTimeDoubling(retryCount) == baseDelay * 2 ^ retryCount

\* baseDelay * Math.pow(1.5, retryCount), exact for retryCount <= maxRetries
WaitTime(retryCount) == (baseDelay * 3 ^ retryCount) \div (2 ^ retryCount)

\* Lines 128-138: the catch block of processBatch.
processBatchCatch(S, t) ==
    IF S.pb.retryCount >= maxRetries
    THEN BatchReturned(S, FALSE, t)
    ELSE [S EXCEPT !.pb.phase = "backoff", !.pb.wake = t + WaitTime(S.pb.retryCount)]

\* PromiseAllFulfil collecting the values in their order of arrival.
PromiseAllByArrival(responses, idx, value) ==
    LET first == CHOOSE k \in DOMAIN responses :
                     /\ responses[k] = <<>>
                     /\ \A m \in 1..(k - 1) : responses[m] # <<>>
    IN [responses EXCEPT ![first] = <<value>>]

\* Promise.all keeps the value of the idx-th promise at position idx.
PromiseAllFulfil(responses, idx, value) ==
    [responses EXCEPT ![idx] = <<value>>]

\* Lines 100-109.
InsertData(chunks, responses) ==
    [k \in 1..Len(chunks) |-> Row(substackData.author, chunks[k], responses[k][1])]

\* Lines 113-119: the insert call for the rows from cursor on is issued.
IssueInsert(S) ==
    [S EXCEPT !.pb.phase = "inserting", !.calls.inserts = @ + 1]

\* Lines 81-109: the promise add() returned for req settles.
EmbeddingSettled(S, req, outcome, t) ==
    IF S.pb.phase # "embedding" \/ req.att # S.pb.att THEN S
    ELSE IF outcome # "ok" THEN processBatchCatch(S, t)
    ELSE LET rs == PromiseAllFulfil(S.pb.responses, req.idx, Embedding(req.content))
         IN IF \A k \in DOMAIN rs : rs[k] # <<>>
            THEN IssueInsert([S EXCEPT !.pb.responses = rs,
                                       !.pb.insertData = InsertData(S.pb.chunks, rs),
                                       !.pb.cursor = 0])
            ELSE [S EXCEPT !.pb.responses = rs]

\* insertData.slice(i, i + SUPABASE_CHUNK_SIZE)
InsertSlice(S) ==
    SubSeq(S.pb.insertData, S.pb.cursor + 1,
           Min(S.pb.cursor + SUPABASE_CHUNK_SIZE, Len(S.pb.insertData)))

\* Lines 113-127: the pending insert returned without error.
InsertReturned(S, t) ==
    LET S1 == [S EXCEPT !.table = @ \o InsertSlice(S),
                        !.pb.cursor = @ + SUPABASE_CHUNK_SIZE]
    IN IF S1.pb.cursor < Len(S1.pb.insertData)
       THEN IssueInsert(S1)
       ELSE BatchReturned(S1, TRUE, t)

\* DeleteReturned with a delete that has no filter on the author.
DeleteReturnedOfAllRows(S, t) ==
    EnterBatch([S EXCEPT !.table = <<>>], FirstBatchFrom(1), t)

\* DeleteReturned with the store leaving the author's rows in place.
DeleteReturnedKeeping(S, t) ==
    EnterBatch(S, FirstBatchFrom(1), t)

\* Lines 158-166: the delete returned without error.
DeleteReturned(S, t) ==
    EnterBatch([S EXCEPT !.table = SelectSeq(@, LAMBDA r : r.author # substackData.author)],
               FirstBatchFrom(1), t)

\* ------------------------------------------- generateEmbeddings, per chunk
SerialWorld ==
    [lim |-> SerialLimiter, pb |-> pb, run |-> run, table |-> table, calls |-> calls]

SetSerialWorld(S) ==
    /\ SetSerialLimiter(S.lim)
    /\ pb' = S.pb
    /\ run' = S.run
    /\ table' = S.table
    /\ calls' = S.calls

\* Lines 277-285: the chunk's embedding request is handed to the limiter.
processChunkWithRetry(S, chunk, retryCount, t) ==
    LET att == S.calls.attempts + 1
        req == [att |-> att, idx |-> 1, content |-> chunk.content]
    IN [S EXCEPT
          !.lim = SerialAdd(@, req, t),
          !.pb = [phase |-> "embedding", att |-> att, retryCount |-> retryCount,
                  chunks |-> <<chunk>>, responses |-> <<<<>>>>,
                  insertData |-> <<>>, cursor |-> 0, wake |-> 0],
          !.calls.attempts = att]

\* j++, then i++ (lines 349, 353).
AfterChunk(i, j) ==
    IF j + 1 < Len(substackData.essays[i].chunks)
    THEN [i |-> i, j |-> j + 1]
    ELSE FirstBatchFrom(i + 1)

\* Lines 349-363: the loop reaches position pos.
EnterChunk(S, pos, t) ==
    IF pos.i > Len(substackData.essays)
    THEN [S EXCEPT !.run.pc = "done", !.run.i = pos.i, !.run.j = pos.j, !.pb = NoBatch]
    ELSE processChunkWithRetry(
             [S EXCEPT !.run.pc = "chunk", !.run.i = pos.i, !.run.j = pos.j],
             substackData.essays[pos.i].chunks[pos.j + 1], 0, t)

\* Lines 365-368: processChunkWithRetry returned; the result changes nothing.
ChunkReturned(S, success, t) ==
    EnterChunk(S, AfterChunk(S.run.i, S.run.j), t)

\* baseDelay * Math.pow(2, retryCount)
ChunkWaitTime(retryCount) == chunkBaseDelay * 2 ^ retryCount

\* Lines 307-317: the catch block of processChunkWithRetry.
processChunkCatch(S, t) ==
    IF S.pb.retryCount >= chunkMaxRetries
    THEN ChunkReturned(S, FALSE, t)
    ELSE [S EXCEPT !.pb.phase = "backoff",
                   !.pb.wake = t + ChunkWaitTime(S.pb.retryCount)]

\* Lines 280-299: the promise add() returned for req settles.
ChunkEmbeddingSettled(S, req, outcome, t) ==
    IF S.pb.phase # "embedding" \/ req.att # S.pb.att THEN S
    ELSE IF outcome # "ok" THEN processChunkCatch(S, t)
    ELSE LET embedding == Embedding(req.content)
         IN [S EXCEPT
               !.pb.phase = "inserting",
               !.pb.responses = <<<<embedding>>>>,
               !.pb.insertData = <<Row(substackData.author, S.pb.chunks[1], embedding)>>,
               !.calls.inserts = @ + 1]

\* ChunkInsertReturned without its return: control falls into the retry.
ChunkInsertReturnedNoReturn(S, t) ==
    processChunkCatch([S EXCEPT !.table = @ \o S.pb.insertData], t)

\* Lines 301-306: the insert returned without error.
ChunkInsertReturned(S, t) ==
    ChunkReturned([S EXCEPT !.table = @ \o S.pb.insertData], TRUE, t)

\* Lines 337-345: the delete returned without error.
SerialDeleteReturned(S, t) ==
    EnterChunk([S EXCEPT !.table = SelectSeq(@, LAMBDA r : r.author # substackData.author)],
               FirstBatchFrom(1), t)

\* -------------------------------------- scripts/embed.ts generateEmbeddings
\* The errors createEmbedding may throw: an HTTP status and the type of the
\* error body.  An insert error is thrown as a plain Error, without response.
EmbeddingErrors == [status : {RATE_LIMITED, 500}, type : {"insufficient_quota", "other"}]
SupabaseError == [status |-> 0, type |-> "supabase"]

EmbedRow(chunk, embedding) ==
    [essay_title |-> chunk.essay_title, content |-> chunk.content, embedding |-> embedding]

EmbedWorld ==
    [em |-> em, run |-> run, table |-> table, calls |-> calls, hist |-> hist,
     failedChunks |-> failedChunks, inflight |-> inflight]

SetEmbedWorld(E) ==
    /\ em' = E.em
    /\ run' = E.run
    /\ table' = E.table
    /\ calls' = E.calls
    /\ hist' = E.hist
    /\ failedChunks' = E.failedChunks
    /\ inflight' = E.inflight

\* Line 50: essays.reduce((acc, essay) => acc + essay.chunks.length, 0)
RECURSIVE ChunksFrom(_)
ChunksFrom(i) ==
    IF i > Len(substackData.essays) THEN 0
    ELSE Len(substackData.essays[i].chunks) + ChunksFrom(i + 1)

totalChunks == ChunksFrom(1)

CurrentChunk(E) == substackData.essays[E.run.i].chunks[E.run.j + 1]

\* Lines 67-77: the loop condition holds and createEmbedding is called.
createEmbedding(E, t) ==
    LET att == E.calls.attempts + 1
        req == [att |-> att, idx |-> 1, content |-> CurrentChunk(E).content]
    IN [E EXCEPT
          !.em.phase = "embedding",
          !.inflight = @ \cup {req},
          !.calls.attempts = att]

\* Lines 56-67: the loops reach position pos; past the last essay comes the
\* final report (lines 145-163).
EmbedEnterChunk(E, pos, t) ==
    IF pos.i > Len(substackData.essays)
    THEN [E EXCEPT !.run.pc = "done", !.run.i = pos.i, !.run.j = pos.j, !.em = NoLoop]
    ELSE createEmbedding(
             [E EXCEPT !.run.pc = "chunk", !.run.i = pos.i, !.run.j = pos.j,
                       !.em = [NoLoop EXCEPT !.phase = "embedding"]], t)

\* EmbedNextChunk with the break leaving the loop over the essay's chunks.
EmbedNextChunkLeavingEssay(E, t) == EmbedEnterChunk(E, FirstBatchFrom(E.run.i + 1), t)

\* Lines 139-142, then j++.
EmbedNextChunk(E, t) == EmbedEnterChunk(E, AfterChunk(E.run.i, E.run.j), t)

\* The wait computed from the number of failures before this one.
RateLimitWaitBeforeIncrement(retries) ==
    Min(embedBaseDelay * 2 ^ (retries - 1), maxWaitTime)

\* Math.min(baseDelay * Math.pow(2, retries), 120000)
RateLimitWait(retries) == Min(embedBaseDelay * 2 ^ retries, maxWaitTime)

\* Lines 106-136: the catch block of the retry loop.
EmbedCatch(E, error, t) ==
    LET retries == E.em.retries + 1
        E1 == [E EXCEPT !.em.retries = retries, !.em.lastError = <<error>>]
    IN IF error.status = RATE_LIMITED
       THEN [E1 EXCEPT !.em.phase = "sleeping", !.em.waitTime = RateLimitWait(retries),
                       !.em.rateWait = RateLimitWait(retries)]
       ELSE IF error.type = "insufficient_quota"
       THEN [E1 EXCEPT !.run.pc = "exited", !.em.phase = "none"]
       ELSE IF retries = embedMaxRetries
       THEN EmbedNextChunk(
                [E1 EXCEPT
                   !.failedChunks = Append(@, [essay |-> CurrentChunk(E).essay_title,
                                               chunk |-> E.run.j,
                                               error |-> error]),
                   !.hist.givenUp = @ \cup {<<E.run.i, E.run.j>>}], t)
       ELSE [E1 EXCEPT !.em.phase = "sleeping", !.em.waitTime = embedBaseDelay]

\* Lines 74-93: createEmbedding returned and the insert is issued.
EmbedEmbeddingReturned(E, req, t) ==
    [E EXCEPT !.inflight = @ \ {req},
              !.em.phase = "inserting",
              !.em.embedding = <<Embedding(req.content)>>,
              !.calls.inserts = @ + 1]

\* Lines 95-104: the insert returned without error.
EmbedInsertReturned(E, t) ==
    [E EXCEPT !.table = Append(@, EmbedRow(CurrentChunk(E), E.em.embedding[1])),
              !.run.processedChunks = @ + 1,
              !.hist.recovered = IF E.em.retries >= 1
                                 THEN @ \cup {CurrentChunk(E).content} ELSE @,
              !.em.phase = "pause",
              !.em.waitTime = embedBaseDelay]

\* EmbedSleepOver with a retry loop that has no ceiling.
EmbedSleepOverNoCeiling(E, t) ==
    IF E.em.phase = "pause" THEN EmbedNextChunk(E, t) ELSE createEmbedding(E, t)

\* EmbedSleepOver without the break of line 104: after the sleep that follows
\* a success the loop condition is tested again.
EmbedSleepOverNoBreak(E, t) ==
    IF E.em.retries < embedMaxRetries THEN createEmbedding(E, t)
    ELSE EmbedNextChunk(E, t)

\* Lines 67, 114-115, 135: a sleep of the catch block is over and the loop
\* condition is tested again.  Lines 103-104: the sleep after a success is
\* over and the loop is left.
EmbedSleepOver(E, t) ==
    IF E.em.phase = "pause" THEN EmbedNextChunk(E, t)
    ELSE IF E.em.retries < embedMaxRetries THEN createEmbedding(E, t)
    ELSE EmbedNextChunk([E EXCEPT !.hist.givenUp = @ \cup {<<E.run.i, E.run.j>>}], t)

\* ------------------------------- scripts/substack_scraper.ts createChunks
\* A text is a sequence of characters.  Alnum(n) is a run of alphanumeric
\* characters that the encoder turns into n tokens, taken as n characters
\* long; Other is a character that is neither alphanumeric nor a space nor a
\* period, such as "!".
Alnum(n) == [kind |-> "alnum", n |-> n]
Period == [kind |-> ".", n |-> 1]
Space == [kind |-> " ", n |-> 1]
Other == [kind |-> "!", n |-> 1]

Symbols == {Alnum(1), Alnum(CHUNK_SIZE \div 2), Alnum(CHUNK_SIZE), Period, Space, Other}
Texts == SeqsUpTo(Symbols, MaxTextLen)

\* content.length
RECURSIVE StrLength(_)
StrLength(s) == IF s = <<>> THEN 0 ELSE Head(s).n + StrLength(Tail(s))

\* The tokens the k-th character of s gives: the byte-pair encoder of
\* gpt-3-encoder first cuts the text into runs of letters or digits, runs of
\* other characters and white space, a single space going with the run that
\* follows it; every character of a run is taken to be a token of its own.
TokensAt(s, k) ==
    CASE s[k].kind = "alnum" -> s[k].n
      [] s[k].kind = " " -> IF k < Len(s) /\ s[k + 1].kind # " " THEN 0 ELSE 1
      [] OTHER -> 1

RECURSIVE TokensFrom(_, _)
TokensFrom(s, k) == IF k > Len(s) THEN 0 ELSE TokensAt(s, k) + TokensFrom(s, k + 1)

\* encode(s).length
encodeLength(s) == TokensFrom(s, 1)

\* s.split(". ")
RECURSIVE SplitFrom(_, _, _, _)
SplitFrom(s, k, cur, acc) ==
    IF k > Len(s) THEN Append(acc, cur)
    ELSE IF s[k] = Period /\ k < Len(s) /\ s[k + 1] = Space
    THEN SplitFrom(s, k + 2, <<>>, Append(acc, cur))
    ELSE SplitFrom(s, k + 1, Append(cur, s[k]), acc)

split(s) == SplitFrom(s, 1, <<>>, <<>>)

\* s.trim()
RECURSIVE trimStart(_)
trimStart(s) == IF s # <<>> /\ Head(s) = Space THEN trimStart(Tail(s)) ELSE s

RECURSIVE trimEnd(_)
trimEnd(s) ==
    IF s # <<>> /\ s[Len(s)] = Space THEN trimEnd(SubSeq(s, 1, Len(s) - 1)) ELSE s

trim(s) == trimEnd(trimStart(s))

\* Lines 179-189.
createChunk(content, title, url, date) ==
    [essay_title |-> title, essay_url |-> url, essay_date |-> date,
     content |-> content, content_length |-> StrLength(content),
     content_tokens |-> encodeLength(content), embedding |-> <<>>]

\* OverBudget with the budget itself counted as over.
OverBudgetFromBudgetOn(content) == encodeLength(content) >= CHUNK_SIZE

\* Line 148.
OverBudget(content) == encodeLength(content) > CHUNK_SIZE

\* Lines 152-171: the loop from sentence i on, then the trailing flush.  The
\* empty sentence has no last character: line 162 raises a TypeError.
RECURSIVE ChunkLoop(_, _, _, _, _, _, _)
ChunkLoop(sentences, i, chunkText, chunks, title, url, date) ==
    IF i > Len(sentences)
    THEN [threw |-> FALSE,
          chunks |-> IF Len(trim(chunkText)) > 0
                     THEN Append(chunks, createChunk(trim(chunkText), title, url, date))
                     ELSE chunks]
    ELSE LET sentence == sentences[i]
             flush == encodeLength(chunkText) + encodeLength(sentence) > CHUNK_SIZE
             chunks1 == IF flush
                        THEN Append(chunks, createChunk(trim(chunkText), title, url, date))
                        ELSE chunks
             chunkText1 == IF flush THEN <<>> ELSE chunkText
         IN IF Len(sentence) = 0
            THEN [threw |-> TRUE, chunks |-> <<>>]
            ELSE ChunkLoop(sentences, i + 1,
                           chunkText1 \o sentence \o
                               (IF sentence[Len(sentence)].kind = "alnum"
                                THEN <<Period, Space>> ELSE <<Space>>),
                           chunks1, title, url, date)

\* Lines 144-177.
createChunks(content, title, url, date) ==
    IF OverBudget(content)
    THEN ChunkLoop(split(content), 1, <<>>, <<>>, title, url, date)
    ELSE [threw |-> FALSE, chunks |-> <<createChunk(trim(content), title, url, date)>>]

\* The title, URL and date createChunks is called with.
Title == "title"
Url == "url"
Date == "date"

NotCalled == [state |-> "none", chunks |-> <<>>]

\* ------------------------------------------ /api/scrape-substack, scrape
\* A page of the site: whether its URL holds a keyword of filterUrls,
\* whether fetching it fails, whether it has the paywall marker and the
\* content region, and the markdown of that region.
ShortText == <<Alnum(1)>>
LongText == <<Alnum(CHUNK_SIZE), Period, Space, Alnum(1)>>
LongTextWithEmptySentence == <<Alnum(CHUNK_SIZE), Period, Space, Period, Space, Alnum(1)>>
PageTexts == {ShortText, LongText, LongTextWithEmptySentence}

FilteredPage ==
    [keyword |-> TRUE, fetch |-> "ok", paywall |-> FALSE, hasContent |-> TRUE,
     markdown |-> ShortText]
ErrorPage ==
    [keyword |-> FALSE, fetch |-> "error", paywall |-> FALSE, hasContent |-> FALSE,
     markdown |-> <<>>]
FetchedPages ==
    {pg \in [keyword : {FALSE}, fetch : {"ok"}, paywall : BOOLEAN, hasContent : BOOLEAN,
             markdown : PageTexts \cup {<<>>}] : pg.hasContent <=> pg.markdown # <<>>}
Pages == {FilteredPage, ErrorPage} \cup FetchedPages

\* The site: the sitemap cannot be fetched, or is not a sitemap, or lists the
\* pages.
NoSite == [sitemap |-> "fetchError", pages |-> <<>>]
Sites ==
    {NoSite, [sitemap |-> "malformed", pages |-> <<>>]}
        \cup {[sitemap |-> "list", pages |-> ps] : ps \in SeqsUpTo(Pages, MaxUrls)}

\* NEXT_PUBLIC_DEV_MODE and DEV_MODE_ARTICLE_LIMIT.
Production == [devMode |-> FALSE, devLimit |-> DEV_MODE_ARTICLE_LIMIT]
Envs == {Production} \cup {[devMode |-> TRUE, devLimit |-> n] : n \in {1, DEV_MODE_ARTICLE_LIMIT}}

\* The request: its method, and its url parameter: missing, empty, given
\* more than once (an array), a string that is no URL, a URL.
PlainRequest == [method |-> "GET", url |-> "valid"]
Requests == [method : {"GET", "POST"}, url : {"missing", "empty", "list", "invalid", "valid"}]

\* Who calls scrape: the handler, which passes an onProgress option, or a
\* script that builds the scraper with the default options (line 50).
Callers == {"handler", "script"}

\* The handler runs in every environment, the script in production.
Calls ==
    {[caller |-> "handler", env |-> e] : e \in Envs}
        \cup {[caller |-> "script", env |-> Production]}

Webs ==
    {[request |-> PlainRequest, site |-> st, env |-> c.env, caller |-> c.caller] :
        st \in Sites, c \in Calls}
        \cup {[request |-> r, site |-> NoSite, env |-> Production, caller |-> "handler"] :
                r \in Requests}

\* fetched and chunked are history: the URLs requested with axios.get and
\* the URLs createChunks was called for.
Idle ==
    [pc |-> "idle", urls |-> <<>>, index |-> 0, essays |-> <<>>, fetched |-> <<>>,
     chunked |-> {}, returned |-> <<>>]

\* open: the client has not closed the connection; delivered: the number of
\* events written while it was open.
NoResponse ==
    [statusCode |-> 0, body |-> "", events |-> <<>>, ended |-> FALSE, open |-> TRUE,
     delivered |-> 0]

\* The state a step of the handler works on.
WebWorld == [scraper |-> scraper, res |-> res]

SetWebWorld(W) ==
    /\ scraper' = W.scraper
    /\ res' = W.res

\* Lines 21-27 of the handler.
sendSSE(W, data) ==
    [W EXCEPT !.res.events = Append(@, data),
              !.res.delivered = IF W.res.open THEN @ + 1 ELSE @]

\* HandlerCatch leaving the response open.
HandlerCatchNoEnd(W, message) ==
    [sendSSE(W, [type |-> "error", message |-> message])
        EXCEPT !.scraper.pc = "done"]

\* Lines 53-60 of the handler.
HandlerCatch(W, message) ==
    [sendSSE(W, [type |-> "error", message |-> message])
        EXCEPT !.res.ended = TRUE, !.scraper.pc = "done"]

\* An error leaves scrape: the handler catches it, a script sees the promise
\* rejected.
ScrapeThrew(W, message) ==
    IF web.caller = "handler" THEN HandlerCatch(W, message)
    ELSE [W EXCEPT !.scraper.pc = "rejected"]

\* The essay kept only when its progress event reaches the client.
onProgressOwningEssay(W, data) ==
    IF web.caller = "handler" /\ W.res.open THEN sendSSE(W, data)
    ELSE [W EXCEPT !.scraper.essays = SubSeq(@, 1, Len(@) - 1)]

\* Line 210 and lines 34-42 of the handler: the option is called when there
\* is one.
onProgress(W, data) == IF web.caller = "handler" THEN sendSSE(W, data) ELSE W

\* Lines 84-89: the URLs, as positions in the sitemap, that hold no keyword.
RECURSIVE filterUrls(_, _)
filterUrls(pages, k) ==
    IF k > Len(pages) THEN <<>>
    ELSE IF pages[k].keyword THEN filterUrls(pages, k + 1)
    ELSE <<k>> \o filterUrls(pages, k + 1)

\* urls.slice(0, devLimit)
urlsToProcess(urls) ==
    IF web.env.devMode THEN SubSeq(urls, 1, Min(web.env.devLimit, Len(urls))) ELSE urls

PageTitle(url) == <<"title", url>>
PageDate(url) == <<"date", url>>

\* The content region checked without looking for the paywall marker.
ReachesChunkerPaywalled(pg) == pg.fetch # "error" /\ pg.hasContent

\* Lines 94-116: the page is fetched, has no paywall marker and has a
\* content region, so that line 118 calls createChunks.
ReachesChunker(pg) == pg.fetch # "error" /\ ~pg.paywall /\ pg.hasContent

\* Lines 91-142: the post of a fetched page, or <<>> for null.
getPostContent(url) ==
    LET pg == web.site.pages[url]
        made == createChunks(pg.markdown, PageTitle(url), url, PageDate(url))
    IN IF ~ReachesChunker(pg) \/ made.threw
       THEN <<>>
       ELSE <<[title |-> PageTitle(url), url |-> url, date |-> PageDate(url),
               content |-> pg.markdown, length |-> StrLength(pg.markdown),
               tokens |-> encodeLength(pg.markdown), chunks |-> made.chunks]>>

RECURSIVE SumOf(_, _)
SumOf(essays, field) ==
    IF essays = <<>> THEN 0 ELSE Head(essays)[field] + SumOf(Tail(essays), field)

\* Lines 215-222.
Json(essays) ==
    [current_date |-> "today", author |-> "writer", url |-> "baseUrl",
     length |-> SumOf(essays, "length"), tokens |-> SumOf(essays, "tokens"),
     essays |-> essays]

\* Lines 204-207 and 215-227: the loop reaches its index; past the last URL
\* the result is written to the file.
EnterPage(W) ==
    IF W.scraper.index < Len(W.scraper.urls)
    THEN [W EXCEPT !.scraper.pc = "page"]
    ELSE [W EXCEPT !.scraper.pc = "writing"]

\* Lines 4-45 and 191-192, 63-67: the handler runs up to the fetch of the
\* sitemap.
HandlerCalled(W) ==
    IF web.request.method # "GET"
    THEN [W EXCEPT !.res.statusCode = METHOD_NOT_ALLOWED, !.res.body = "Method not allowed",
                   !.res.ended = TRUE, !.scraper.pc = "done"]
    ELSE IF web.request.url \in {"missing", "empty", "list"}
    THEN [W EXCEPT !.res.statusCode = BAD_REQUEST, !.res.body = "URL is required",
                   !.res.ended = TRUE, !.scraper.pc = "done"]
    ELSE LET W1 == sendSSE(W, [type |-> "start"])
         IN IF web.request.url = "invalid"
            THEN HandlerCatch(W1, "Invalid URL")
            ELSE [W1 EXCEPT !.scraper.pc = "sitemap"]

\* Lines 67-82 and 192-207: the fetch of the sitemap returned.  The parser
\* gives an array for url only when the sitemap has two entries or more;
\* without one, map is called on undefined or on a single object.
SitemapReturned(W) ==
    IF web.site.sitemap = "fetchError" THEN ScrapeThrew(W, "sitemap fetch failed")
    ELSE IF web.site.sitemap = "malformed" \/ Len(web.site.pages) < 2
    THEN ScrapeThrew(W, "sitemap has no url list")
    ELSE EnterPage([W EXCEPT
                      !.scraper.urls = urlsToProcess(filterUrls(web.site.pages, 1)),
                      !.scraper.index = 0,
                      !.scraper.essays = <<>>])

\* The loop left at the first URL that gives no post.
NextIndexEndingOnNull(W, post) ==
    IF post = <<>> THEN Len(W.scraper.urls) ELSE W.scraper.index + 1

\* Line 204: index++, whatever getPostContent returned.
NextIndex(W, post) == W.scraper.index + 1

\* ProgressData with the length of urls, the list before the development
\* limit is applied, as the total.
ProgressDataOfAllUrls(W, post) ==
    [type |-> "progress", current |-> W.scraper.index + 1,
     total |-> Len(filterUrls(web.site.pages, 1)), currentTitle |-> post.title]

\* Line 210 and lines 35-40 of the handler: the arguments of onProgress as
\* the event the handler makes of them.
ProgressData(W, post) ==
    [type |-> "progress", current |-> W.scraper.index + 1,
     total |-> Len(W.scraper.urls), currentTitle |-> post.title]

\* Lines 207-213: getPostContent returned for the URL at index.
PageReturned(W) ==
    LET url == W.scraper.urls[W.scraper.index + 1]
        post == getPostContent(url)
        W0 == [W EXCEPT !.scraper.fetched = Append(@, url),
                        !.scraper.chunked = IF ReachesChunker(web.site.pages[url])
                                            THEN @ \cup {url} ELSE @]
        W1 == IF post = <<>> THEN W0
              ELSE onProgress([W0 EXCEPT !.scraper.essays = Append(@, post[1])],
                              ProgressData(W, post[1]))
    IN EnterPage([W1 EXCEPT !.scraper.index = NextIndex(W, post)])

\* Lines 227-230 and 45-52 of the handler: the file is written, scrape
\* returns and the handler sends the result.
ScrapeReturned(W) ==
    LET json == Json(W.scraper.essays)
    IN IF web.caller = "handler"
       THEN [sendSSE(W, [type |-> "complete", result |-> json])
                EXCEPT !.res.ended = TRUE, !.scraper.pc = "done", !.scraper.returned = <<json>>]
       ELSE [W EXCEPT !.scraper.pc = "returned", !.scraper.returned = <<json>>]

\* -------------------------------------------------- part_001 scrapePosts
\* A string searched by filterUrls is a sequence of pieces: a piece is a
\* keyword of KEYWORDS_TO_FILTER or a piece that holds none and makes none
\* with its neighbours.
KEYWORDS_TO_FILTER == {"about", "archive", "podcast"}

\* String.prototype.includes
includes(str, keyword) == \E k \in DOMAIN str : str[k] = keyword

\* blog.substack.com and podcastnotes.substack.com; the paths p/one, p/two
\* and archive.
Hosts == {<<"blog">>, <<"podcast", "notes">>}
Paths == {<<"p/", "one">>, <<"p/", "two">>, <<"archive">>}
UrlString(host, path) == <<"https://">> \o host \o <<".substack.com/">> \o path

\* What the site answers for sitemap.xml and for feed.xml: an error, or a
\* document listing the paths.
Listings(n) ==
    {[status |-> "fetchError", locs |-> <<>>]}
        \cup {[status |-> "list", locs |-> ps] : ps \in SeqsUpTo(Paths, n)}

Substacks ==
    [host : Hosts, sitemap : Listings(MaxUrls), feed : Listings(MaxItems),
     numPostsToScrape : {0, 1}]

\* sitemapUrls is history: what fetchUrlsFromSitemap returned.
NoPosts ==
    [pc |-> "idle", urls |-> <<>>, index |-> 0, sitemapCalls |-> 0, feedCalls |-> 0,
     sitemapUrls |-> <<>>, fetched |-> <<>>, files |-> {}]

Locs(listing) == [k \in DOMAIN listing.locs |-> UrlString(substack.host, listing.locs[k])]

\* Lines 114-118 of part_001, lines 84-89 of substack_scraper.ts.
filterUrlStrings(urls) ==
    SelectSeq(urls, LAMBDA url : ~ \E keyword \in KEYWORDS_TO_FILTER : includes(url, keyword))

\* Lines 76-91.  The parser gives an array for url only when the sitemap has
\* two entries or more; the TypeError of map is caught with the fetch error.
fetchUrlsFromSitemap ==
    IF substack.sitemap.status = "fetchError" \/ Len(substack.sitemap.locs) < 2
    THEN <<>>
    ELSE filterUrlStrings(Locs(substack.sitemap))

\* Lines 93-112.  A single item is wrapped in an array; with no item the
\* array holds undefined, and reading its link raises, which is caught.
fetchUrlsFromFeed ==
    IF substack.feed.status = "fetchError" \/ Len(substack.feed.locs) < 1
    THEN <<>>
    ELSE filterUrlStrings(Locs(substack.feed))

\* Lines 221-229: the loop reaches its index, or scrapePosts returns.
EnterPost(P) ==
    IF P.index < Len(P.urls) THEN [P EXCEPT !.pc = "post"] ELSE [P EXCEPT !.pc = "done"]

\* Lines 215-221.
StartLoop(P, urls) ==
    LET n == substack.numPostsToScrape
    IN EnterPost([P EXCEPT !.urls = IF n > 0 THEN SubSeq(urls, 1, Min(n, Len(urls))) ELSE urls,
                           !.index = 0])

\* Lines 208-210: the directory is there, the sitemap is requested.
DirectoryReady(P) == [P EXCEPT !.pc = "sitemap", !.sitemapCalls = @ + 1]

\* The fallback taken only when the sitemap could not be read.
NeedsFeedOnFailure(urls) ==
    substack.sitemap.status = "fetchError" \/ Len(substack.sitemap.locs) < 2

\* Line 211.
NeedsFeed(urls) == Len(urls) = 0

\* Lines 210-213.
PostsSitemapReturned(P) ==
    LET urls == fetchUrlsFromSitemap
    IN IF NeedsFeed(urls)
       THEN [P EXCEPT !.pc = "feed", !.feedCalls = @ + 1, !.sitemapUrls = urls]
       ELSE StartLoop([P EXCEPT !.sitemapUrls = urls], urls)

\* Lines 212-221.
FeedReturned(P) == StartLoop(P, fetchUrlsFromFeed)

\* Lines 222-227: getPostContent returned the post or null.
PostReturned(P, isNull) ==
    LET P1 == [P EXCEPT !.fetched = Append(@, P.urls[P.index + 1])]
    IN IF isNull THEN EnterPost([P1 EXCEPT !.index = @ + 1]) ELSE [P1 EXCEPT !.pc = "saving"]

\* Lines 201-205: the part of the URL after its last slash.
getFilenameFromUrl(url) == url[Len(url)]

\* Lines 188-199 and 227-229: the file was there, or has been written.
SaveReturned(P, exists) ==
    LET filename == getFilenameFromUrl(P.urls[P.index + 1])
    IN EnterPost([P EXCEPT !.files = IF exists THEN @ ELSE @ \cup {filename},
                           !.index = @ + 1])

\* ------------------------------------------------------------------ time
Timers ==
    Due(sleepers)
        \cup (IF pb.phase = "backoff" THEN {pb.wake} ELSE {})

\* A call to the embedding service or to the store is pending.
CallPending ==
    \/ inflight # {}
    \/ run.pc = "deleting"
    \/ pb.phase = "inserting"

Outcomes == {"ok", "error", "quota"}

\* The programs that run the batched pipeline.
BatchVariants == {"batch", "rerun"}

\* Failures injected in one run: as many as the attempts one batch or chunk
\* can have, plus MaxExtraFaults.
MaxFaults ==
    CASE variant = "batch" -> maxRetries + 1 + MaxExtraFaults
      [] variant = "serial" -> chunkMaxRetries + 1 + MaxExtraFaults
      [] variant = "embed" -> embedMaxRetries + MaxExtraFaults
      [] OTHER -> 0

\* ------------------------------------------------------------- the model
\* No request has come in.
InitNoRequest ==
    /\ web = [request |-> PlainRequest, site |-> NoSite, env |-> Production,
              caller |-> "handler"]
    /\ scraper = Idle
    /\ res = NoResponse

\* scrapePosts has not been called.
InitNoPosts ==
    /\ substack = [host |-> <<"blog">>, sitemap |-> [status |-> "fetchError", locs |-> <<>>],
                   feed |-> [status |-> "fetchError", locs |-> <<>>], numPostsToScrape |-> 0]
    /\ md = NoPosts

\* The programs of the embedding pipelines do not scrape.
InitNoWeb ==
    /\ text = <<>>
    /\ result = NotCalled
    /\ InitNoRequest
    /\ InitNoPosts

InitCommon ==
    /\ now = StartTime
    /\ rateLimiter = [queue |-> <<>>, activeRequests |-> 0, lastRequestTime |-> 0]
    /\ sleepers = <<>>
    /\ inflight = {}
    /\ dispatched = <<>>
    /\ added = 0
    /\ run = [pc |-> "start", i |-> 0, j |-> 0, processedChunks |-> 0, call |-> 0]
    /\ pb = NoBatch
    /\ calls = [attempts |-> 0, inserts |-> 0, deletes |-> 0]
    /\ hist = NoHistory
    /\ faults = 0
    /\ em = NoLoop
    /\ failedChunks = <<>>

\* The limiter alone, called by a free caller.
InitLimiter ==
    /\ InitCommon
    /\ InitNoWeb
    /\ variant = "limiter"
    /\ substackData = [author |-> Author, essays |-> <<>>]
    /\ table = <<>>

\* The batched pipeline of part_006.
InitBatch ==
    /\ InitCommon
    /\ InitNoWeb
    /\ variant = "batch"
    /\ substackData \in Inputs
    /\ table = InitialTable

\* The batched pipeline called MaxRuns times on the same input, every call
\* to the embedding service and to the store succeeding.
InitRerun ==
    /\ InitCommon
    /\ InitNoWeb
    /\ variant = "rerun"
    /\ substackData \in Inputs
    /\ table = InitialTable

\* The per-chunk pipeline of part_006.
InitSerial ==
    /\ now = StartTime
    /\ rateLimiter = [queue |-> <<>>, processing |-> FALSE, lastRequestTime |-> 0]
    /\ sleepers = <<>>
    /\ inflight = {}
    /\ dispatched = <<>>
    /\ added = 0
    /\ run = [pc |-> "start", i |-> 0, j |-> 0, processedChunks |-> 0, call |-> 0]
    /\ pb = NoBatch
    /\ calls = [attempts |-> 0, inserts |-> 0, deletes |-> 0]
    /\ hist = NoHistory
    /\ faults = 0
    /\ em = NoLoop
    /\ failedChunks = <<>>
    /\ InitNoWeb
    /\ variant = "serial"
    /\ substackData \in Inputs
    /\ table = InitialTable

\* scripts/embed.ts, whose table starts empty.
InitEmbed ==
    /\ InitCommon
    /\ InitNoWeb
    /\ variant = "embed"
    /\ substackData \in ShortInputs
    /\ table = <<>>

\* createChunks called on a text.
InitChunker ==
    /\ InitCommon
    /\ variant = "chunker"
    /\ substackData = [author |-> Author, essays |-> <<>>]
    /\ table = <<>>
    /\ text \in Texts
    /\ result = NotCalled
    /\ InitNoRequest
    /\ InitNoPosts

\* A request to /api/scrape-substack.
InitScrape ==
    /\ InitCommon
    /\ variant = "scrape"
    /\ substackData = [author |-> Author, essays |-> <<>>]
    /\ table = <<>>
    /\ text = <<>>
    /\ result = NotCalled
    /\ web \in Webs
    /\ scraper = Idle
    /\ res = NoResponse
    /\ InitNoPosts

\* The serial limiter alone, called by a free caller.  Date.now() is more
\* than requestInterval when the program starts.
QueueStart == StartTime + serialRequestInterval

InitQueue ==
    /\ now = QueueStart
    /\ rateLimiter = [queue |-> <<>>, processing |-> FALSE, lastRequestTime |-> 0]
    /\ sleepers = <<>>
    /\ inflight = {}
    /\ dispatched = <<>>
    /\ added = 0
    /\ run = [pc |-> "start", i |-> 0, j |-> 0, processedChunks |-> 0, call |-> 0]
    /\ pb = NoBatch
    /\ calls = [attempts |-> 0, inserts |-> 0, deletes |-> 0]
    /\ hist = NoHistory
    /\ faults = 0
    /\ em = NoLoop
    /\ failedChunks = <<>>
    /\ InitNoWeb
    /\ variant = "queue"
    /\ substackData = [author |-> Author, essays |-> <<>>]
    /\ table = <<>>

\* scrapePosts called on a site.
InitPosts ==
    /\ InitCommon
    /\ variant = "posts"
    /\ substackData = [author |-> Author, essays |-> <<>>]
    /\ table = <<>>
    /\ text = <<>>
    /\ result = NotCalled
    /\ InitNoRequest
    /\ substack \in Substacks
    /\ md = NoPosts

Init == InitLimiter \/ InitBatch \/ InitSerial \/ InitEmbed

\* A caller outside the pipelines calls add().
Add ==
    /\ variant = "limiter"
    /\ added < MaxAdds
    /\ added' = added + 1
    /\ SetLimiter(LimiterAdd(Limiter, [att |-> 0, idx |-> added + 1, content |-> <<>>], now))
    /\ UNCHANGED <<webVars, embedVars, now, variant, substackData, pipelineVars, hist, faults>>

\* Lines 141-161 and 320-340: generateEmbeddings is called and issues the
\* delete.  In the "rerun" program the caller calls it again when the call
\* before has returned.
CallGenerateEmbeddings ==
    /\ variant \in BatchVariants \cup {"serial"}
    /\ \/ run.pc = "start"
       \/ variant = "rerun" /\ run.pc = "done" /\ run.call < MaxRuns
    /\ run' = [pc |-> "deleting", i |-> 0, j |-> 0, processedChunks |-> 0,
               call |-> run.call + 1]
    /\ calls' = [calls EXCEPT !.deletes = @ + 1]
    /\ UNCHANGED <<webVars, embedVars, now, limiterVars, added, variant, substackData, pb, table, hist, faults>>

DeleteOk ==
    /\ variant \in BatchVariants
    /\ run.pc = "deleting"
    /\ SetWorld(DeleteReturned(World, now))
    /\ UNCHANGED <<webVars, embedVars, now, added, variant, substackData, hist, faults>>

\* DeleteError without the throw: the error is logged and the run goes on to
\* its loops.
DeleteErrorLogged ==
    /\ variant \in BatchVariants \cup {"serial"}
    /\ run.pc = "deleting"
    /\ faults < MaxFaults
    /\ faults' = faults + 1
    /\ hist' = [hist EXCEPT !.deleteError = TRUE]
    /\ IF variant = "serial"
       THEN SetSerialWorld(EnterChunk(SerialWorld, FirstBatchFrom(1), now))
       ELSE SetWorld(DeleteReturnedKeeping(World, now))
    /\ UNCHANGED <<webVars, embedVars, now, added, variant, substackData>>

\* Lines 163-166 and 342-345.
DeleteError ==
    /\ variant \in BatchVariants \cup {"serial"}
    /\ run.pc = "deleting"
    /\ faults < MaxFaults
    /\ faults' = faults + 1
    /\ run' = [run EXCEPT !.pc = "thrown"]
    /\ hist' = [hist EXCEPT !.deleteError = TRUE]
    /\ UNCHANGED <<webVars, embedVars, now, limiterVars, added, variant, substackData, pb, table, calls>>

\* The response to req is the first of its attempt to arrive ahead of the
\* response to a chunk before it in the batch.
ArrivesOutOfOrder(req, outcome) ==
    /\ outcome = "ok"
    /\ pb.phase = "embedding"
    /\ req.att = pb.att
    /\ \E k \in 1..(req.idx - 1) : pb.responses[k] = <<>>

\* The request function of a started request settles: the limiter's handler
\* runs, then the reactions of the promise add() returned.
Settle ==
    \E req \in inflight, outcome \in Outcomes :
        /\ variant \in {"limiter"} \cup BatchVariants
        /\ outcome # "ok" =>
              /\ variant # "limiter"
              /\ faults < MaxFaults
              /\ Len(pb.chunks) <= MaxFailBatch
        /\ faults' = IF outcome = "ok" THEN faults ELSE faults + 1
        /\ hist' = [hist EXCEPT
                       !.quota = @ \/ outcome = "quota",
                       !.outOfOrder = @ \/ ArrivesOutOfOrder(req, outcome)]
        /\ SetWorld(EmbeddingSettled([World EXCEPT !.lim = LimiterSettle(@, req, now)],
                                     req, outcome, now))
        /\ UNCHANGED <<webVars, embedVars, now, added, variant, substackData>>

\* The sleep of an activation of processNextRequest is over.
Wake ==
    /\ variant \in {"limiter"} \cup BatchVariants
    /\ \E i \in DOMAIN sleepers : sleepers[i].wake <= now
    /\ SetLimiter(LimiterWake(Limiter, FirstDue(sleepers, now), now))
    /\ UNCHANGED <<webVars, embedVars, now, added, variant, substackData, pipelineVars, hist, faults>>

\* Lines 136-137: the backoff sleep of processBatch is over.
BackoffOver ==
    /\ variant \in BatchVariants
    /\ pb.phase = "backoff"
    /\ pb.wake <= now
    /\ SetWorld(processBatch(World, pb.chunks, pb.retryCount + 1, now))
    /\ UNCHANGED <<webVars, embedVars, now, added, variant, substackData, hist, faults>>

InsertOk ==
    /\ variant \in BatchVariants
    /\ pb.phase = "inserting"
    /\ SetWorld(InsertReturned(World, now))
    /\ UNCHANGED <<webVars, embedVars, now, added, variant, substackData, hist, faults>>

\* Lines 121-123.
InsertError ==
    /\ variant \in BatchVariants
    /\ pb.phase = "inserting"
    /\ faults < MaxFaults
    /\ faults' = faults + 1
    /\ hist' = [hist EXCEPT !.insertError = TRUE]
    /\ SetWorld(processBatchCatch(World, now))
    /\ UNCHANGED <<webVars, embedVars, now, added, variant, substackData>>

\* ---- the per-chunk pipeline
SerialDeleteOk ==
    /\ variant = "serial"
    /\ run.pc = "deleting"
    /\ SetSerialWorld(SerialDeleteReturned(SerialWorld, now))
    /\ UNCHANGED <<webVars, embedVars, now, added, variant, substackData, hist, faults>>

\* The embedding call settles: the limiter's chain goes on, then the
\* reactions of the promise add() returned run.
SerialSettled ==
    \E req \in inflight, outcome \in Outcomes :
        /\ variant = "serial"
        /\ outcome # "ok" => faults < MaxFaults
        /\ faults' = IF outcome = "ok" THEN faults ELSE faults + 1
        /\ hist' = IF outcome = "quota" THEN [hist EXCEPT !.quota = TRUE] ELSE hist
        /\ SetSerialWorld(ChunkEmbeddingSettled(
               [SerialWorld EXCEPT !.lim = SerialSettle(@, req, now)], req, outcome, now))
        /\ UNCHANGED <<webVars, embedVars, now, added, variant, substackData>>

\* The sleep of the processQueue chain is over.
SerialWoke ==
    /\ variant \in {"serial", "queue"}
    /\ \E i \in DOMAIN sleepers : sleepers[i].wake <= now
    /\ SetSerialLimiter(SerialWake(SerialLimiter, FirstDue(sleepers, now), now))
    /\ UNCHANGED <<webVars, embedVars, now, added, variant, substackData, pipelineVars, hist, faults>>

\* Lines 315-316: the backoff sleep of processChunkWithRetry is over.
ChunkBackoffOver ==
    /\ variant = "serial"
    /\ pb.phase = "backoff"
    /\ pb.wake <= now
    /\ SetSerialWorld(processChunkWithRetry(SerialWorld, pb.chunks[1], pb.retryCount + 1, now))
    /\ UNCHANGED <<webVars, embedVars, now, added, variant, substackData, hist, faults>>

ChunkInsertOk ==
    /\ variant = "serial"
    /\ pb.phase = "inserting"
    /\ SetSerialWorld(ChunkInsertReturned(SerialWorld, now))
    /\ hist' = IF pb.retryCount >= 1
               THEN [hist EXCEPT !.recovered = @ \cup {pb.chunks[1].content}]
               ELSE hist
    /\ UNCHANGED <<webVars, embedVars, now, added, variant, substackData, faults>>

\* Lines 301-303.
ChunkInsertError ==
    /\ variant = "serial"
    /\ pb.phase = "inserting"
    /\ faults < MaxFaults
    /\ faults' = faults + 1
    /\ hist' = [hist EXCEPT !.insertError = TRUE]
    /\ SetSerialWorld(processChunkCatch(SerialWorld, now))
    /\ UNCHANGED <<webVars, embedVars, now, added, variant, substackData>>

\* ---- scripts/embed.ts
\* Lines 36-77: generateEmbeddings is called.
EmbedCall ==
    /\ variant = "embed"
    /\ run.pc = "start"
    /\ SetEmbedWorld(EmbedEnterChunk(EmbedWorld, FirstBatchFrom(1), now))
    /\ UNCHANGED <<webVars, now, rateLimiter, sleepers, dispatched, added, variant, substackData, pb, faults>>

EmbedOk ==
    \E req \in inflight :
        /\ variant = "embed"
        /\ SetEmbedWorld(EmbedEmbeddingReturned(EmbedWorld, req, now))
        /\ UNCHANGED <<webVars, now, rateLimiter, sleepers, dispatched, added, variant, substackData, pb, faults>>

\* createEmbedding throws.
EmbedFailed ==
    \E req \in inflight, error \in EmbeddingErrors :
        /\ variant = "embed"
        /\ faults < MaxFaults
        /\ faults' = faults + 1
        /\ SetEmbedWorld(EmbedCatch(
               [EmbedWorld EXCEPT
                  !.inflight = @ \ {req},
                  !.hist.quota = @ \/ error.type = "insufficient_quota"], error, now))
        /\ UNCHANGED <<webVars, now, rateLimiter, sleepers, dispatched, added, variant, substackData, pb>>

EmbedInsertOk ==
    /\ variant = "embed"
    /\ em.phase = "inserting"
    /\ SetEmbedWorld(EmbedInsertReturned(EmbedWorld, now))
    /\ UNCHANGED <<webVars, now, rateLimiter, sleepers, dispatched, added, variant, substackData, pb, faults>>

\* Lines 95-97.
EmbedInsertError ==
    /\ variant = "embed"
    /\ em.phase = "inserting"
    /\ faults < MaxFaults
    /\ faults' = faults + 1
    /\ SetEmbedWorld(EmbedCatch([EmbedWorld EXCEPT !.hist.insertError = TRUE],
                                SupabaseError, now))
    /\ UNCHANGED <<webVars, now, rateLimiter, sleepers, dispatched, added, variant, substackData, pb>>

\* sleep(em.waitTime) is over.  embed.ts never reads the clock and runs
\* nothing beside its loop, so a sleep shows only by its length.
EmbedWoke ==
    /\ variant = "embed"
    /\ em.phase \in {"sleeping", "pause"}
    /\ SetEmbedWorld(EmbedSleepOver(EmbedWorld, now))
    /\ UNCHANGED <<webVars, now, rateLimiter, sleepers, dispatched, added, variant, substackData, pb, faults>>

\* Time passes while a call is pending (or the free caller is idle); a
\* timer never fires late.  In the "rerun" program, where no call fails,
\* calls return at the instants the timers fire.
Elapse ==
    /\ variant \notin {"embed", "rerun"}
    /\ variant = "limiter" \/ CallPending
    /\ now + Step <= StartTime + MaxElapse * Step
    /\ \A d \in Timers : now + Step <= d
    /\ now' = now + Step
    /\ UNCHANGED <<webVars, embedVars, limiterVars, added, variant, substackData, pipelineVars, hist, faults>>

\* Nothing else happens until the next timer is due.
AdvanceToTimer ==
    /\ variant # "embed"
    /\ Timers # {}
    /\ now < SetMin(Timers)
    /\ now' = SetMin(Timers)
    /\ UNCHANGED <<webVars, embedVars, limiterVars, added, variant, substackData, pipelineVars, hist, faults>>

\* ---- the serial limiter with a free caller
\* A caller outside the pipelines calls add().
QueueAdd ==
    /\ variant = "queue"
    /\ added < MaxAdds
    /\ added' = added + 1
    /\ SetSerialLimiter(SerialAdd(SerialLimiter,
                                  [att |-> 0, idx |-> added + 1, content |-> <<>>], now))
    /\ UNCHANGED <<webVars, embedVars, now, variant, substackData, pipelineVars, hist, faults>>

\* The request function in flight settles, and with it the promise add()
\* returned for it.
QueueSettle ==
    \E req \in inflight :
        /\ variant = "queue"
        /\ SetSerialLimiter(SerialSettle(SerialLimiter, req, now))
        /\ UNCHANGED <<webVars, embedVars, now, added, variant, substackData, pipelineVars,
                       hist, faults>>

\* Time passes, half a requestInterval at a time, while no timer is due, up
\* to MaxElapse + 1 steps after the last dispatch.
QueueStep == serialRequestInterval \div 2

QueueElapse ==
    /\ variant = "queue"
    /\ now + QueueStep <= rateLimiter.lastRequestTime + (MaxElapse + 1) * QueueStep
    /\ \A d \in Timers : now + QueueStep <= d
    /\ now' = now + QueueStep
    /\ UNCHANGED <<webVars, embedVars, limiterVars, added, variant, substackData, pipelineVars,
                   hist, faults>>

\* ---- scripts/substack_scraper.ts
\* Lines 144-177: createChunks is called and returns, or raises.
CreateChunksCalled ==
    /\ variant = "chunker"
    /\ result.state = "none"
    /\ LET r == createChunks(text, Title, Url, Date)
       IN result' = [state |-> IF r.threw THEN "thrown" ELSE "returned",
                     chunks |-> r.chunks]
    /\ UNCHANGED <<embedVars, limiterVars, pipelineVars, now, added, variant,
                   substackData, hist, faults, text, web, scraper, res,
                   substack, md>>

\* ---- pages/api/scrape-substack.ts
NoPipeline ==
    UNCHANGED <<embedVars, limiterVars, pipelineVars, now, added, variant,
                substackData, hist, faults, text, result, web, substack, md>>

\* The request comes in.
Request ==
    /\ variant = "scrape"
    /\ web.caller = "handler"
    /\ scraper.pc = "idle"
    /\ SetWebWorld(HandlerCalled(WebWorld))
    /\ NoPipeline

\* Lines 191-192: a script calls scrape() on a scraper without options.
ScrapeCalled ==
    /\ variant = "scrape"
    /\ web.caller = "script"
    /\ scraper.pc = "idle"
    /\ SetWebWorld([WebWorld EXCEPT !.scraper.pc = "sitemap"])
    /\ NoPipeline

\* The client closes the connection while the handler is at work: what is
\* written from then on is lost.
ClientGone ==
    /\ variant = "scrape"
    /\ web.caller = "handler"
    /\ scraper.pc \in {"sitemap", "page", "writing"}
    /\ res.open
    /\ SetWebWorld([WebWorld EXCEPT !.res.open = FALSE])
    /\ NoPipeline

SitemapFetched ==
    /\ variant = "scrape"
    /\ scraper.pc = "sitemap"
    /\ SetWebWorld(SitemapReturned(WebWorld))
    /\ NoPipeline

PageFetched ==
    /\ variant = "scrape"
    /\ scraper.pc = "page"
    /\ SetWebWorld(PageReturned(WebWorld))
    /\ NoPipeline

FileWritten ==
    /\ variant = "scrape"
    /\ scraper.pc = "writing"
    /\ SetWebWorld(ScrapeReturned(WebWorld))
    /\ NoPipeline

\* Line 227: fs.writeFile rejects.
FileWriteFailed ==
    /\ variant = "scrape"
    /\ scraper.pc = "writing"
    /\ SetWebWorld(ScrapeThrew(WebWorld, "write failed"))
    /\ NoPipeline

\* ---- part_001
NoWeb ==
    UNCHANGED <<embedVars, limiterVars, pipelineVars, now, added, variant,
                substackData, hist, faults, text, result, web, scraper, res, substack>>

\* Lines 207-210 and 67-74: scrapePosts is called and finds or makes the
\* directory.
ScrapePostsCalled ==
    /\ variant = "posts"
    /\ md.pc = "idle"
    /\ md' = DirectoryReady(md)
    /\ NoWeb

\* Line 71: fs.mkdir rejects, and scrapePosts with it.
MkdirFailed ==
    /\ variant = "posts"
    /\ md.pc = "idle"
    /\ md' = [md EXCEPT !.pc = "rejected"]
    /\ NoWeb

PostsSitemapFetched ==
    /\ variant = "posts"
    /\ md.pc = "sitemap"
    /\ md' = PostsSitemapReturned(md)
    /\ NoWeb

FeedFetched ==
    /\ variant = "posts"
    /\ md.pc = "feed"
    /\ md' = FeedReturned(md)
    /\ NoWeb

\* getPostContent returns the post, or null for a page behind the paywall,
\* without content region or not fetched.
PostFetched ==
    /\ variant = "posts"
    /\ md.pc = "post"
    /\ \E isNull \in BOOLEAN : md' = PostReturned(md, isNull)
    /\ NoWeb

\* fs.access finds the file, as it does a file this run has written, or
\* fs.writeFile writes it.
PostSaved ==
    /\ variant = "posts"
    /\ md.pc = "saving"
    /\ \E exists \in BOOLEAN :
          /\ getFilenameFromUrl(md.urls[md.index + 1]) \in md.files => exists
          /\ md' = SaveReturned(md, exists)
    /\ NoWeb

\* Line 196: fs.writeFile rejects, and scrapePosts with it.
PostSaveFailed ==
    /\ variant = "posts"
    /\ md.pc = "saving"
    /\ getFilenameFromUrl(md.urls[md.index + 1]) \notin md.files
    /\ md' = [md EXCEPT !.pc = "rejected"]
    /\ NoWeb

NextLimiter == Add \/ Settle \/ Wake \/ Elapse \/ AdvanceToTimer

NextBatch ==
    \/ CallGenerateEmbeddings
    \/ DeleteOk
    \/ DeleteError
    \/ Settle
    \/ Wake
    \/ BackoffOver
    \/ InsertOk
    \/ InsertError
    \/ Elapse
    \/ AdvanceToTimer

NextRerun ==
    \/ CallGenerateEmbeddings
    \/ DeleteOk
    \/ Settle
    \/ Wake
    \/ InsertOk
    \/ AdvanceToTimer

NextSerial ==
    \/ CallGenerateEmbeddings
    \/ SerialDeleteOk
    \/ DeleteError
    \/ SerialSettled
    \/ SerialWoke
    \/ ChunkBackoffOver
    \/ ChunkInsertOk
    \/ ChunkInsertError
    \/ Elapse
    \/ AdvanceToTimer

NextChunker == CreateChunksCalled

NextScrape ==
    \/ Request
    \/ ScrapeCalled
    \/ ClientGone
    \/ SitemapFetched
    \/ PageFetched
    \/ FileWritten
    \/ FileWriteFailed

NextPosts ==
    \/ ScrapePostsCalled
    \/ MkdirFailed
    \/ PostsSitemapFetched
    \/ FeedFetched
    \/ PostFetched
    \/ PostSaved
    \/ PostSaveFailed

NextQueue == QueueAdd \/ QueueSettle \/ SerialWoke \/ QueueElapse \/ AdvanceToTimer

NextEmbed ==
    \/ EmbedCall
    \/ EmbedOk
    \/ EmbedFailed
    \/ EmbedInsertOk
    \/ EmbedInsertError
    \/ EmbedWoke

\* The embedding pipelines; the repeated call, createChunks and the scrape
\* handler, scrapePosts and the serial limiter with its free caller are the
\* programs of SpecRerun, SpecChunker, SpecScrape, SpecPosts and SpecQueue.
Next == NextLimiter \/ NextBatch \/ NextSerial \/ NextEmbed

SpecLimiter == InitLimiter /\ [][NextLimiter]_vars
SpecBatch == InitBatch /\ [][NextBatch]_vars
SpecRerun == InitRerun /\ [][NextRerun]_vars
SpecSerial == InitSerial /\ [][NextSerial]_vars
SpecChunker == InitChunker /\ [][NextChunker]_vars
SpecScrape == InitScrape /\ [][NextScrape]_vars
SpecPosts == InitPosts /\ [][NextPosts]_vars
SpecQueue == InitQueue /\ [][NextQueue]_vars
\* The two limiters, each with its free caller: every request function that
\* was started settles and every timer fires.
Served == Settle \/ Wake \/ QueueSettle \/ SerialWoke \/ AdvanceToTimer

SpecLimitersLive ==
    /\ InitLimiter \/ InitQueue
    /\ [][NextLimiter \/ NextQueue]_vars
    /\ WF_vars(Served)
SpecEmbed == InitEmbed /\ [][NextEmbed]_vars
\* Every call returns and every timer fires: the loop of embed.ts is never
\* left waiting for ever.
SpecEmbedLive == SpecEmbed /\ WF_vars(NextEmbed)
Spec == Init /\ [][Next]_vars

\* ------------------------------------------------------------ the claims
\* The rows of the table that hold chunk content c, written by this program.
RowsOf(c) ==
    {k \in DOMAIN table :
        /\ table[k].content = c
        /\ variant = "embed" \/ table[k].author = substackData.author}

InputContents ==
    UNION {{substackData.essays[i].chunks[k].content :
                k \in DOMAIN substackData.essays[i].chunks} :
           i \in DOMAIN substackData.essays}

\* The number of calls made to the embedding service so far.
EmbeddingCalls == IF variant = "embed" THEN calls.attempts ELSE Len(dispatched)

\* C1: the number of request functions started and not yet settled never
\* exceeds maxConcurrent (3).
C1_AtMostThreeInFlight == Cardinality(inflight) <= maxConcurrent

\* C2: two requests dispatched one after the other start at least
\* requestInterval apart, and no two activations pass the pacing check
\* against the same lastRequestTime.
C2_PacingRespected ==
    /\ \A i \in 1..(Len(dispatched) - 1) :
          dispatched[i + 1].time - dispatched[i].time >= requestInterval
    /\ \A i, k \in DOMAIN dispatched :
          i # k => dispatched[i].seen # dispatched[k].seen

\* C3: in scripts/embed.ts, once the embedding service has answered with an
\* insufficient_quota error (whatever its HTTP status), no embedding call and
\* no insert is made any more: the chunk is not retried.
C3_QuotaStopsEmbedRun ==
    [][hist.quota =>
          /\ calls'.attempts = calls.attempts
          /\ calls'.inserts = calls.inserts]_vars

\* C4: in the batched pipeline a quota-exhausted error is fatal: once one has
\* been handed to the program no attempt is started, no embedding call is
\* dispatched, no row is inserted and the run does not move to another batch.
C4_QuotaIsFatal ==
    [][hist.quota =>
          /\ calls'.attempts = calls.attempts
          /\ Len(dispatched') = Len(dispatched)
          /\ table' = table
          /\ run'.i = run.i /\ run'.j = run.j]_vars

\* C5: no chunk of a batch has more than one row inserted during the run.
C5_AtMostOneRowPerChunk ==
    \A c \in InputContents : Cardinality(RowsOf(c)) <= 1

\* C6: in the per-chunk paths a chunk whose insert succeeds on a retry (its
\* earlier attempts having failed) has exactly one row.
C6_OneRowAfterRetry ==
    variant \in {"serial", "embed"} =>
        \A c \in hist.recovered : Cardinality(RowsOf(c)) = 1

\* A chunk got its row on a retry after embedding failures only.
C6_Witness ==
    /\ variant \in {"serial", "embed"}
    /\ ~hist.insertError
    /\ \E c \in hist.recovered : Cardinality(RowsOf(c)) = 1

\* The entries of failedChunks for chunk j of essay i.
LedgerEntries(i, j) ==
    {k \in DOMAIN failedChunks :
        /\ failedChunks[k].essay = substackData.essays[i].title
        /\ failedChunks[k].chunk = j}

\* C7: in scripts/embed.ts, when the run completes every chunk that left its
\* retry loop after embedMaxRetries failed attempts has exactly one entry in
\* failedChunks.
C7_GivenUpChunksInLedger ==
    (variant = "embed" /\ run.pc = "done") =>
        \A c \in hist.givenUp : Cardinality(LedgerEntries(c[1], c[2])) = 1

\* C8: after the first failed insert no embedding call and no insert is made,
\* and the run does not complete normally.
C8_InsertErrorEndsRun ==
    [][hist.insertError =>
          /\ EmbeddingCalls' = EmbeddingCalls
          /\ calls'.inserts = calls.inserts
          /\ run'.pc # "done"]_vars

\* C9: every row carries the vector the embedding service returned for the
\* row's own content.
C9_RowsCarryOwnVector ==
    \A k \in DOMAIN table : table[k].embedding = Embedding(table[k].content)

\* A batch whose responses arrived out of order has been inserted.
C9_Witness ==
    /\ variant = "batch"
    /\ hist.outOfOrder
    /\ run.pc = "done"
    /\ \E c \in InputContents : RowsOf(c) # {}

\* C10: in both pipelines of part_006 the delete is issued once, and it has
\* returned before the first embedding call and before the first insert.
C10_DeleteOnceAndFirst ==
    variant \in {"batch", "serial"} =>
        /\ calls.deletes <= 1
        /\ (calls.attempts > 0 \/ Len(dispatched) > 0 \/ calls.inserts > 0) =>
              calls.deletes = 1 /\ run.pc \notin {"start", "deleting"}
        /\ run.pc \in {"done", "chunk", "batch"} => calls.deletes = 1

\* A run that embedded and inserted has completed.
C10_Witness ==
    /\ variant \in {"batch", "serial"}
    /\ run.pc = "done"
    /\ Len(dispatched) > 0
    /\ calls.inserts > 0

\* The rows of the input's author, in insertion order.
AuthorRows == SelectSeq(table, LAMBDA r : r.author = substackData.author)

\* C11: whenever a call of the batched generateEmbeddings has returned, the
\* first as the second on the same input, every embedding call and insert
\* having succeeded, the author's rows are exactly one row per chunk of the
\* input, each with the chunk's content and vector, whatever the author's rows
\* were before; the rows of other authors are as they were.
C11_RerunLeavesOneRowPerChunk ==
    (variant = "rerun" /\ run.pc = "done") =>
        /\ \A c \in InputContents : Cardinality(RowsOf(c)) = 1
        /\ Len(AuthorRows) = Cardinality(InputContents)
        /\ \A k \in DOMAIN AuthorRows :
              /\ AuthorRows[k].content \in InputContents
              /\ AuthorRows[k].embedding = Embedding(AuthorRows[k].content)
        /\ SelectSeq(table, LAMBDA r : r.author # substackData.author)
              = SelectSeq(InitialTable, LAMBDA r : r.author # substackData.author)

\* The second call has returned on an input with more than one insert slice.
C11_Witness ==
    /\ variant = "rerun"
    /\ run.pc = "done"
    /\ run.call = MaxRuns
    /\ Cardinality(InputContents) > SUPABASE_CHUNK_SIZE
    /\ Len(AuthorRows) = Cardinality(InputContents)

\* The positions (essay, chunk index) of the input's chunks, and their order:
\* essay order, then chunk order.
ChunkPositions ==
    UNION {{<<i, k - 1>> : k \in DOMAIN substackData.essays[i].chunks} :
           i \in DOMAIN substackData.essays}
Before(p, q) == p[1] < q[1] \/ (p[1] = q[1] /\ p[2] < q[2])
Later(p) == {q \in ChunkPositions : Before(p, q)}
First(S) == CHOOSE q \in S : \A r \in S : r = q \/ Before(q, r)

\* The step leaves the chunk at the current position for the next chunk in
\* order, whose embedding call it makes, or for the final report when no chunk
\* is left.
AdvancesInOrder ==
    LET p == <<run.i, run.j>>
    IN IF Later(p) = {}
       THEN run'.pc = "done"
       ELSE LET q == First(Later(p))
            IN /\ run'.pc = "chunk"
               /\ <<run'.i, run'.j>> = q
               /\ calls'.attempts = calls.attempts + 1
               /\ \E req \in inflight' :
                     /\ req.att = calls'.attempts
                     /\ req.content = substackData.essays[q[1]].chunks[q[2] + 1].content

\* C12: in scripts/embed.ts the step that gives a chunk up after its retry
\* ceiling goes on to the next chunk at once, and from then on every chunk
\* is left for the next one in essay order and then chunk order, each being
\* submitted to the embedding service when it is reached.
C12_GivenUpChunkDoesNotStall ==
    [][(/\ variant = "embed"
        /\ \/ hist'.givenUp # hist.givenUp
           \/ /\ hist.givenUp # {}
              /\ run.pc = "chunk"
              /\ <<run'.i, run'.j>> # <<run.i, run.j>>)
       => AdvancesInOrder]_vars

\* A chunk of the essay was given up and a later chunk of the same essay has
\* been submitted.
C12_Witness ==
    /\ variant = "embed"
    /\ run.pc = "chunk"
    /\ em.phase = "embedding"
    /\ \E g \in hist.givenUp : g[1] = run.i /\ g[2] < run.j

\* The attempts made so far on the chunk the loop of embed.ts is at.
AttemptsOnChunk ==
    em.retries + (IF em.phase \in {"embedding", "inserting", "pause"} THEN 1 ELSE 0)

\* The chunks the loop of embed.ts has reached so far.
ChunksReached ==
    IF run.pc = "start" THEN {}
    ELSE IF run.pc = "done" THEN ChunkPositions
    ELSE {q \in ChunkPositions : ~Before(<<run.i, run.j>>, q)}

\* C13: in scripts/embed.ts no chunk gets more than embedMaxRetries (8)
\* attempts, the run stops before its final report only on a quota error, and
\* when every call returns the run does reach its final report (or has been
\* handed a quota error).
C13_EmbedRunCompletes ==
    /\ [](variant = "embed" =>
            /\ AttemptsOnChunk <= embedMaxRetries
            /\ calls.attempts <= embedMaxRetries * Cardinality(ChunksReached)
            /\ run.pc \in {"start", "chunk", "done", "exited"}
            /\ run.pc = "exited" => hist.quota)
    /\ <>(variant = "embed" => (run.pc = "done" \/ hist.quota))

\* The final report is reached after failures, a chunk given up among them,
\* and without a quota error.
C13_Witness ==
    /\ variant = "embed"
    /\ run.pc = "done"
    /\ ~hist.quota
    /\ hist.givenUp # {}
    /\ run.processedChunks > 0

\* A sentence as createChunks writes it into a chunk: followed by a period
\* and a space when it ends in an alphanumeric character, by a space alone
\* otherwise.
Rendered(sentence) ==
    IF sentence # <<>> /\ sentence[Len(sentence)].kind = "alnum"
    THEN sentence \o <<Period, Space>>
    ELSE sentence \o <<Space>>

\* The sentences a + 1 .. b, as written into one chunk.
RECURSIVE RenderedAll(_, _, _)
RenderedAll(sentences, a, b) ==
    IF a >= b THEN <<>>
    ELSE Rendered(sentences[a + 1]) \o RenderedAll(sentences, a + 1, b)

\* The content is one sentence of the text, over the budget by itself.
SingleOversizedSentence(content) ==
    \E k \in DOMAIN split(text) :
        /\ encodeLength(split(text)[k]) > CHUNK_SIZE
        /\ content = trim(Rendered(split(text)[k]))

\* C14: every chunk createChunks returns for an over-budget text has
\* content_tokens equal to the token count of its content and at most
\* CHUNK_SIZE (200), unless the chunk is one sentence that by itself has more
\* than CHUNK_SIZE tokens.
C14_ChunksWithinBudget ==
    (variant = "chunker" /\ result.state = "returned" /\ OverBudget(text)) =>
        \A k \in DOMAIN result.chunks :
            /\ result.chunks[k].content_tokens = encodeLength(result.chunks[k].content)
            /\ \/ result.chunks[k].content_tokens <= CHUNK_SIZE
               \/ SingleOversizedSentence(result.chunks[k].content)

\* The chunks from the k-th on hold, in order, the sentences after the first
\* `from`, every sentence in one chunk.
RECURSIVE Groups(_, _, _, _)
Groups(chunks, k, sentences, from) ==
    IF k > Len(chunks) THEN trim(RenderedAll(sentences, from, Len(sentences))) = <<>>
    ELSE \E to \in from..Len(sentences) :
            /\ chunks[k].content = trim(RenderedAll(sentences, from, to))
            /\ Groups(chunks, k + 1, sentences, to)

\* C15: for an over-budget text createChunks returns chunks that hold the
\* sentences of the text (its pieces between ". "), each in exactly one chunk
\* and in the original order, none lost and none repeated, a period written
\* only after a sentence that ends in an alphanumeric character.
C15_SentencesPreserved ==
    (variant = "chunker" /\ result.state # "none" /\ OverBudget(text)) =>
        /\ result.state = "returned"
        /\ Groups(result.chunks, 1, split(text), 0)

\* C16: for a text of at most CHUNK_SIZE (200) tokens, the empty text
\* included, createChunks returns exactly one chunk: the trimmed text, with
\* the length and the token count of the trimmed text.
C16_UnderBudgetOneChunk ==
    (variant = "chunker" /\ result.state # "none" /\ encodeLength(text) <= CHUNK_SIZE) =>
        /\ result.state = "returned"
        /\ Len(result.chunks) = 1
        /\ result.chunks[1].content = trim(text)
        /\ result.chunks[1].content_length = StrLength(trim(text))
        /\ result.chunks[1].content_tokens = encodeLength(trim(text))
        /\ result.chunks[1].essay_title = Title
        /\ result.chunks[1].essay_url = Url
        /\ result.chunks[1].essay_date = Date

\* createChunks returned for a text of exactly CHUNK_SIZE tokens that has
\* white space to trim.
C16_Witness ==
    /\ variant = "chunker"
    /\ result.state = "returned"
    /\ encodeLength(text) = CHUNK_SIZE
    /\ trim(text) # text
    /\ Len(result.chunks) = 1

\* The request is a GET with a url parameter that is a string.
CarriesUrl ==
    /\ web.caller = "handler"
    /\ web.request.method = "GET"
    /\ web.request.url \in {"invalid", "valid"}

TerminalEvents == {"complete", "error"}

\* The last event written.
LastEvent == res.events[Len(res.events)]

\* C18: for a GET request that carries a url, the events written are one
\* start event, then progress events, then at most one terminal event
\* (complete or error), written last and together with the end of the
\* response; once the response is ended nothing is written; and the handler
\* returns only with the response ended.
C18_EventStreamShape ==
    /\ []((variant = "scrape" /\ CarriesUrl /\ scraper.pc # "idle") =>
            /\ Len(res.events) >= 1
            /\ res.events[1].type = "start"
            /\ \A k \in 2..Len(res.events) :
                  res.events[k].type \in {"progress"} \cup TerminalEvents
            /\ \A k \in DOMAIN res.events :
                  res.events[k].type \in TerminalEvents => k = Len(res.events) /\ res.ended
            /\ res.ended => LastEvent.type \in TerminalEvents
            /\ scraper.pc = "done" => res.ended)
    /\ [][(variant = "scrape" /\ res.ended) => res' = res]_vars

\* The stream ended with a complete event after progress events.
C18_Witness ==
    /\ variant = "scrape"
    /\ res.ended
    /\ Len(res.events) > 2
    /\ LastEvent.type = "complete"

\* The URLs processed so far whose extraction failed: the fetch failed, or
\* the page has no paywall marker and no content region.
FailedUrls ==
    {scraper.urls[k] : k \in 1..scraper.index} \cap
    {u \in DOMAIN web.site.pages :
        \/ web.site.pages[u].fetch = "error"
        \/ ~web.site.pages[u].paywall /\ ~web.site.pages[u].hasContent}

\* The result of a run over the URLs of urls that are not in failed.
RECURSIVE EssaysOf(_, _)
EssaysOf(urls, failed) ==
    IF urls = <<>> THEN <<>>
    ELSE (IF Head(urls) \in failed THEN <<>> ELSE getPostContent(Head(urls)))
             \o EssaysOf(Tail(urls), failed)

\* C19: when the extraction of a URL failed, a complete event, if one is
\* sent, differs from the complete event of the run over the same URLs
\* without the failed ones.
C19_FailuresShowInResult ==
    (variant = "scrape" /\ res.ended /\ FailedUrls # {} /\ LastEvent.type = "complete") =>
        LastEvent.result # Json(EssaysOf(scraper.urls, FailedUrls))

\* Discovery gives nothing: the sitemap cannot be fetched or parsed, or has
\* no entry, or none that filterUrls keeps.
DiscoveryYieldsNothing ==
    \/ web.site.sitemap \in {"fetchError", "malformed"}
    \/ filterUrls(web.site.pages, 1) = <<>>

\* C20: when discovery gives nothing the stream ends with a complete event
\* whose result has no essay, not with an error event (the failure of the
\* write of the result file apart).
C20_DiscoveryFailureIsSoft ==
    (variant = "scrape" /\ web.request = PlainRequest /\ res.ended /\ DiscoveryYieldsNothing) =>
        \/ LastEvent.type = "complete" /\ LastEvent.result.essays = <<>>
        \/ LastEvent.type = "error" /\ LastEvent.message = "write failed"
\* What a listing offers once the denylisted addresses are taken out: it was
\* read, and some address of it holds no keyword.
YieldsUrl(listing, least) ==
    /\ listing.status = "list"
    /\ Len(listing.locs) >= least
    /\ \E k \in DOMAIN listing.locs :
          \A keyword \in KEYWORDS_TO_FILTER :
              ~includes(UrlString(substack.host, listing.locs[k]), keyword)

\* C21: scrapePosts asks for the feed exactly once when the sitemap fails or
\* yields no URL after filtering and never when the sitemap yields a URL;
\* when the feed yields none either, the run finishes normally with no post
\* fetched and no file written.
C21_FeedFallback ==
    variant = "posts" =>
        /\ md.feedCalls <= 1
        /\ md.pc \in {"idle", "sitemap"} => md.feedCalls = 0
        /\ md.sitemapCalls = 1 /\ md.pc # "sitemap" =>
              (md.feedCalls = 1 <=> ~YieldsUrl(substack.sitemap, 2))
        /\ md.feedCalls = 1 /\ md.pc # "feed" /\ ~YieldsUrl(substack.feed, 1) =>
              md.pc = "done" /\ md.fetched = <<>> /\ md.files = {}

\* Sitemap and feed are read and list only denylisted addresses; the run is
\* over.
C21_Witness ==
    /\ variant = "posts"
    /\ md.pc = "done"
    /\ md.feedCalls = 1
    /\ substack.host = <<"blog">>
    /\ substack.sitemap.status = "list" /\ Len(substack.sitemap.locs) >= 2
    /\ substack.feed.status = "list" /\ Len(substack.feed.locs) >= 1
    /\ md.fetched = <<>>

\* The URLs to process whose page holds the paywall marker.
Restricted == {u \in DOMAIN web.site.pages : web.site.pages[u].fetch = "ok" /\ web.site.pages[u].paywall}

\* C22: createChunks is never called for a URL whose page holds the paywall
\* marker, with or without a content region, and no essay of the result has
\* that URL; dropping it leaves the loop running on the next URL and writes
\* no event.
C22_RestrictedNeverChunked ==
    /\ [](variant = "scrape" =>
            /\ scraper.chunked \cap Restricted = {}
            /\ \A k \in DOMAIN scraper.essays : scraper.essays[k].url \notin Restricted
            /\ \A k \in DOMAIN res.events :
                  res.events[k].type = "complete" =>
                      \A e \in DOMAIN res.events[k].result.essays :
                          res.events[k].result.essays[e].url \notin Restricted)
    /\ [][(/\ variant = "scrape"
           /\ scraper.pc = "page"
           /\ scraper.urls[scraper.index + 1] \in Restricted
           /\ scraper' # scraper) =>
              /\ scraper'.pc \in {"page", "writing"}
              /\ scraper'.index = scraper.index + 1
              /\ res' = res]_vars

\* A page with the marker and a content region was passed, and a later page
\* gave an essay.
C22_Witness ==
    /\ variant = "scrape"
    /\ \E k \in DOMAIN scraper.fetched :
          /\ scraper.fetched[k] \in Restricted
          /\ web.site.pages[scraper.fetched[k]].hasContent
          /\ \E e \in DOMAIN scraper.essays : scraper.essays[e].url > scraper.fetched[k]

\* The URL gives an essay: its page is neither restricted nor failed.
GivesEssay(u) ==
    LET pg == web.site.pages[u]
    IN /\ pg.fetch = "ok"
       /\ ~pg.paywall
       /\ pg.hasContent
       /\ ~createChunks(pg.markdown, PageTitle(u), u, PageDate(u)).threw

\* C23: in scrape a fetch error or a missing content region of one URL does
\* not keep the later URLs from being fetched: when the loop is over every
\* URL to process has been fetched exactly once, in order, and the essays
\* are those of the URLs neither restricted nor failed, in discovery order.
C23_FailureDoesNotStopLoop ==
    variant = "scrape" =>
        /\ scraper.pc \in {"page", "writing"} =>
              /\ scraper.fetched = SubSeq(scraper.urls, 1, scraper.index)
              /\ [k \in DOMAIN scraper.essays |-> scraper.essays[k].url]
                    = SelectSeq(scraper.fetched, GivesEssay)
        /\ scraper.pc = "writing" => scraper.fetched = scraper.urls
        /\ (res.ended /\ res.events # <<>> /\ LastEvent.type = "complete") =>
              /\ scraper.fetched = scraper.urls
              /\ [k \in DOMAIN LastEvent.result.essays |-> LastEvent.result.essays[k].url]
                    = SelectSeq(scraper.urls, GivesEssay)

\* A fetch failed, a later page had no content region, and a page after both
\* gave an essay of the result.
C23_Witness ==
    /\ variant = "scrape"
    /\ res.ended /\ res.events # <<>> /\ LastEvent.type = "complete"
    /\ \E a, b, c \in DOMAIN scraper.urls :
          /\ a < b /\ b < c
          /\ web.site.pages[scraper.urls[a]].fetch = "error"
          /\ web.site.pages[scraper.urls[b]].fetch = "ok"
          /\ ~web.site.pages[scraper.urls[b]].hasContent
          /\ ~web.site.pages[scraper.urls[b]].paywall
          /\ GivesEssay(scraper.urls[c])

\* The essays of the pages the site serves, in the order of the sitemap.
ExpectedEssays ==
    LET urls == urlsToProcess(filterUrls(web.site.pages, 1))
    IN [k \in 1..Cardinality({u \in DOMAIN urls : GivesEssay(urls[u])}) |->
          getPostContent(SelectSeq(urls, GivesEssay)[k])[1]]

\* C24: the essays and chunks that scrape produces depend on the pages
\* fetched alone: they are the same with and without an onProgress option,
\* and whether the progress events written reached the client or were lost.
C24_ProgressDoesNotChangeResult ==
    variant = "scrape" =>
        /\ scraper.pc = "writing" => scraper.essays = ExpectedEssays
        /\ scraper.returned # <<>> => scraper.returned[1] = Json(ExpectedEssays)
        /\ (res.events # <<>> /\ LastEvent.type = "complete") =>
              LastEvent.result = Json(ExpectedEssays)

\* The handler's call returned two essays; the progress event of the first
\* was delivered, that of the second was lost.
C24_Witness ==
    /\ variant = "scrape"
    /\ web.caller = "handler"
    /\ scraper.returned # <<>>
    /\ Len(scraper.returned[1].essays) = 2
    /\ res.delivered = 2
    /\ Len(res.events) = 4

\* The part of a URL after its host name.
PathOf(url) ==
    LET slash == CHOOSE k \in DOMAIN url : url[k] = ".substack.com/"
    IN SubSeq(url, slash + 1, Len(url))

PathHoldsNoKeyword(url) == \A keyword \in KEYWORDS_TO_FILTER : ~includes(PathOf(url), keyword)

\* C25: filterUrls keeps a URL exactly when its path, the part after the
\* host name, holds none of the keywords about, archive, podcast, and keeps
\* the order: of a sitemap that was read, the URLs returned are those whose
\* path holds no keyword.
C25_FilterLooksAtPath ==
    (/\ variant = "posts"
     /\ md.pc \notin {"idle", "sitemap"}
     /\ md.sitemapCalls = 1
     /\ substack.sitemap.status = "list"
     /\ Len(substack.sitemap.locs) >= 2) =>
        md.sitemapUrls = SelectSeq(Locs(substack.sitemap), PathHoldsNoKeyword)

\* The retry loop of embed.ts sleeps after a failure that was a 429 response.
SleepsAfter429(e) ==
    e.phase = "sleeping" /\ e.lastError # <<>> /\ e.lastError[1].status = RATE_LIMITED

\* base delay times 2^n, capped at the maximum wait.
Backoff(n) ==
    IF embedBaseDelay * 2 ^ n > maxWaitTime THEN maxWaitTime ELSE embedBaseDelay * 2 ^ n

C27_EveryRetryBacksOff ==
    (variant = "embed" /\ em.phase = "sleeping") => em.waitTime = Backoff(em.retries)

\* processBatch returns to the loop of generateEmbeddings in this step, and
\* returns true in this step.
ProcessBatchReturns ==
    /\ variant = "batch"
    /\ run.pc = "batch"
    /\ run'.pc = "done" \/ <<run'.i, run'.j>> # <<run.i, run.j>>

ProcessBatchReturnsTrue ==
    /\ ProcessBatchReturns
    /\ run'.processedChunks = run.processedChunks + Len(pb.chunks)

\* The pending insert is the last of the attempt.
LastInsertPending ==
    /\ pb.phase = "inserting"
    /\ pb.cursor + SUPABASE_CHUNK_SIZE >= Len(pb.insertData)

\* C28: processBatch makes at most maxRetries + 1 attempts for a batch; it
\* waits baseDelay * 1.5^retryCount after the failure of attempt
\* retryCount + 1 before the next attempt of the same chunks; it returns true
\* in the step in which an attempt that obtained every embedding completes
\* its last insert, and returns false only when attempt maxRetries + 1 fails.
C28_ProcessBatchAttempts ==
    /\ [](variant = "batch" =>
            /\ pb.retryCount <= maxRetries
            /\ pb.phase = "backoff" => pb.retryCount < maxRetries)
    /\ [][(variant = "batch" /\ pb'.phase = "backoff" /\ pb.phase # "backoff") =>
              /\ pb'.retryCount = pb.retryCount
              /\ pb'.wake = now + (baseDelay * 15 ^ pb.retryCount) \div (10 ^ pb.retryCount)]_vars
    /\ [][(variant = "batch" /\ pb.phase = "backoff" /\ pb' # pb) =>
              /\ now >= pb.wake
              /\ pb'.phase = "embedding"
              /\ pb'.retryCount = pb.retryCount + 1
              /\ pb'.chunks = pb.chunks]_vars
    /\ [][ProcessBatchReturns =>
              \/ /\ ProcessBatchReturnsTrue
                 /\ LastInsertPending
                 /\ \A k \in DOMAIN pb.responses : pb.responses[k] # <<>>
                 /\ Len(table') > Len(table)
              \/ /\ run'.processedChunks = run.processedChunks
                 /\ pb.retryCount = maxRetries
                 /\ table' = table]_vars
    /\ [][(variant = "batch" /\ LastInsertPending /\ Len(table') > Len(table)) =>
              ProcessBatchReturnsTrue]_vars

\* The fourth attempt of a batch is running after waits of 1000, 1500 and
\* 2250 ms.
C28_Witness ==
    /\ variant = "batch"
    /\ pb.phase \in {"embedding", "inserting"}
    /\ pb.retryCount = maxRetries
    /\ now >= StartTime + WaitTime(0) + WaitTime(1) + WaitTime(2)

\* C29: in the serial limiter, whenever and however often add() is called,
\* at most one request function is in flight, at most one processQueue chain
\* is active (asleep, or awaiting the request function it started), and two
\* requests dispatched one after the other start at least 3000 ms apart.
C29_SerialLimiterIsSerial ==
    variant = "queue" =>
        /\ Cardinality(inflight) <= 1
        /\ Len(sleepers) + Cardinality(inflight) <= 1
        /\ rateLimiter.processing <=> Len(sleepers) + Cardinality(inflight) = 1
        /\ \A i \in 1..(Len(dispatched) - 1) :
              dispatched[i + 1].time - dispatched[i].time >= serialRequestInterval

\* add() was called while a request was in flight and while the chain was
\* asleep; three requests have been dispatched.
C29_Witness ==
    /\ variant = "queue"
    /\ Len(dispatched) >= 3
    /\ Len(rateLimiter.queue) >= 2
    /\ Len(sleepers) = 1

\* The k-th request passed to add() has been dispatched and its request
\* function has settled, which settles the promise add() returned for it.
Settled(k) ==
    /\ \E i \in DOMAIN dispatched : dispatched[i].req.idx = k
    /\ \A r \in inflight : r.idx # k

\* C30: in both limiters no request waits in the queue without an activation
\* asleep or a request function in flight whose settling starts the next
\* one, and, every request function settling, every request passed to add()
\* is in the end dispatched and its promise settled: time and again all the
\* requests passed so far have been served.
C30_EveryRequestIsServed ==
    /\ []((variant \in {"limiter", "queue"} /\ rateLimiter.queue # <<>>) =>
            (sleepers # <<>> \/ inflight # {}))
    /\ []<>(variant \in {"limiter", "queue"} => \A k \in 1..added : Settled(k))

\* Every add() has been made and every request served, the last after a
\* wait in the queue behind others.
C30_Witness ==
    /\ variant \in {"limiter", "queue"}
    /\ added = MaxAdds
    /\ \A k \in 1..MaxAdds : Settled(k)
    /\ dispatched[MaxAdds].time > dispatched[1].time

\* The attempt of processBatch that request r was added by is the one whose
\* Promise.all is being awaited.
AwaitedAttempt(r) ==
    /\ pb.phase = "embedding"
    /\ r.att = pb.att

\* C31: in the batched pipeline the limiter's queue holds requests of the
\* attempt being awaited only, and every request the limiter dispatches
\* belongs to that attempt: once an attempt has been abandoned because one
\* of its embedding calls failed, none of its requests is queued or
\* dispatched any more.
C31_NoRequestOfAbandonedAttempt ==
    /\ [](variant = "batch" =>
            \A k \in DOMAIN rateLimiter.queue : AwaitedAttempt(rateLimiter.queue[k]))
    /\ [][(variant = "batch" /\ Len(dispatched') > Len(dispatched)) =>
            \A k \in (Len(dispatched) + 1)..Len(dispatched') :
                /\ pb'.phase = "embedding"
                /\ dispatched'[k].req.att = pb'.att]_vars

\* C32: when the batched generateEmbeddings has completed, processedChunks is
\* the number of rows the run inserted for the author (the rows the author
\* has, the delete having removed the earlier ones): a batch that
\* processBatch gave up left no row and a batch counted as processed left
\* one row per chunk.
C32_ProcessedChunksCountRows ==
    (variant = "batch" /\ run.pc = "done") =>
        run.processedChunks = Len(AuthorRows)

\* The chunk at position p of the input has an entry in failedChunks.
InLedger(p) == LedgerEntries(p[1], p[2]) # {}

\* The chunks of the input that have a row in the table.
ChunksWithRow ==
    {p \in ChunkPositions : RowsOf(Content(p[1], p[2])) # {}}

\* C33: in scripts/embed.ts processedChunks never exceeds totalChunks; it
\* changes only by one, in the step in which the insert of the chunk the loop
\* is at returns without error, the embedding of that chunk having returned
\* before, and that chunk was not counted before; so processedChunks is the
\* number of chunks that have a row, each of them has a single row, and none
\* of them is in failedChunks.
C33_ProcessedChunksCountSuccesses ==
    /\ [](variant = "embed" =>
            /\ run.processedChunks <= totalChunks
            /\ run.processedChunks = Cardinality(ChunksWithRow)
            /\ run.processedChunks = Len(table)
            /\ \A p \in ChunksWithRow : ~InLedger(p))
    /\ [][(variant = "embed" /\ run'.processedChunks # run.processedChunks) =>
            /\ run'.processedChunks = run.processedChunks + 1
            /\ em.phase = "inserting"
            /\ em.embedding = <<Embedding(Content(run.i, run.j))>>
            /\ <<run.i, run.j>> \notin ChunksWithRow
            /\ table' = Append(table, EmbedRow(Chunk(run.i, run.j), em.embedding[1]))]_vars

\* The final report is reached with one chunk counted and the other, given
\* up after embedMaxRetries failures, in failedChunks.
C33_Witness ==
    /\ variant = "embed"
    /\ run.pc = "done"
    /\ run.processedChunks = 1
    /\ totalChunks = 2
    /\ Len(failedChunks) = 1

\* C34: createChunks returns a chunk sequence for every text, the texts whose
\* split on ". " has an empty sentence included; it never raises.
C34_CreateChunksIsTotal ==
    (variant = "chunker" /\ result.state # "none") => result.state = "returned"

\* C35: every chunk createChunks returns for an over-budget text has content,
\* content_length > 0, whether or not the first sentence of the text is over
\* the budget by itself.
C35_NoEmptyChunk ==
    (variant = "chunker" /\ result.state = "returned" /\ OverBudget(text)) =>
        \A k \in DOMAIN result.chunks :
            /\ result.chunks[k].content # <<>>
            /\ result.chunks[k].content_length > 0

\* The progress events written so far, in order.
ProgressEvents == SelectSeq(res.events, LAMBDA e : e.type = "progress")

\* C36: in a run of scrape the progress events have strictly increasing
\* current values between 1 and total, all carry as total the number of URLs
\* to process, and there is one event for every essay of the result, in
\* order, with the position and the title of the essay's URL, and none for a
\* URL that gave no essay.
C36_OneProgressEventPerEssay ==
    (variant = "scrape" /\ web.caller = "handler") =>
        /\ Len(ProgressEvents) = Len(scraper.essays)
        /\ \A k \in DOMAIN ProgressEvents :
              LET e == ProgressEvents[k]
              IN /\ 1 <= e.current /\ e.current <= e.total
                 /\ e.total = Len(scraper.urls)
                 /\ k > 1 => ProgressEvents[k - 1].current < e.current
                 /\ e.current <= scraper.index
                 /\ getPostContent(scraper.urls[e.current]) = <<scraper.essays[k]>>
                 /\ e.currentTitle = scraper.essays[k].title
        /\ \A i \in 1..scraper.index :
              getPostContent(scraper.urls[i]) = <<>> =>
                  \A k \in DOMAIN ProgressEvents : ProgressEvents[k].current # i

\* scrape returned two essays of three URLs, the URL between them having
\* given none: the events carry 1 of 3 and 3 of 3.
C36_Witness ==
    /\ variant = "scrape"
    /\ web.caller = "handler"
    /\ scraper.pc = "done"
    /\ scraper.returned # <<>>
    /\ Len(ProgressEvents) = 2
    /\ ProgressEvents[1].current = 1
    /\ ProgressEvents[2].current = MaxUrls
    /\ ProgressEvents[2].total = MaxUrls

\* C37: in both generateEmbeddings variants of part_006, once the delete has
\* returned an error the run has thrown and stays so, no embedding call has
\* been made or is waiting in the limiter, no insert has been issued, and
\* the table is as it was before the run.
C37_DeleteErrorEndsRun ==
    (variant \in {"batch", "serial"} /\ hist.deleteError) =>
        /\ run.pc = "thrown"
        /\ calls.attempts = 0
        /\ Len(dispatched) = 0
        /\ rateLimiter.queue = <<>> /\ sleepers = <<>> /\ inflight = {}
        /\ calls.inserts = 0
        /\ table = InitialTable

\* The delete of a run on an input that has chunks returned an error.
C37_Witness ==
    /\ variant \in {"batch", "serial"}
    /\ hist.deleteError
    /\ run.pc = "thrown"
    /\ InputContents # {}
    /\ calls.deletes = 1

\* The rows of the authors other than the author of the input, in order.
OtherAuthorsRows(rows) == SelectSeq(rows, LAMBDA r : r.author # substackData.author)

\* C38: a run of generateEmbeddings of part_006 for an author leaves the rows
\* of the other authors as they were: a step that removes rows removes rows
\* of the author only, and a step that adds rows adds rows of the author.
C38_OtherAuthorsUntouched ==
    /\ [](variant \in {"batch", "serial"} =>
            OtherAuthorsRows(table) = OtherAuthorsRows(InitialTable))
    /\ [][(variant \in {"batch", "serial"} /\ table' # table) =>
            \/ /\ run.pc = "deleting"
               /\ table' = OtherAuthorsRows(table)
            \/ /\ Len(table') > Len(table)
               /\ SubSeq(table', 1, Len(table)) = table
               /\ \A k \in (Len(table) + 1)..Len(table') :
                     table'[k].author = substackData.author]_vars

\* A run has deleted the author's earlier row and inserted rows, and the row
\* of the other author is in the table.
C38_Witness ==
    /\ variant \in {"batch", "serial"}
    /\ run.pc = "done"
    /\ calls.inserts > 0
    /\ OldRow(Author) \notin {table[k] : k \in DOMAIN table}
    /\ OldRow(OtherAuthor) \in {table[k] : k \in DOMAIN table}
    /\ Len(table) > 1

====
